---------------------------- MODULE Spec2Model ----------------------------
(***************************************************************************)
(* Huffman compression: bit stream writer/reader, pointer priority queue,  *)
(* Huffman tree engine and the compress / decompress drivers.              *)
(*                                                                         *)
(* C arrays are modelled as sequences (index i of the code is index i+1    *)
(* here), pointers to tree nodes as indices into an arena of nodes with    *)
(* NULL == 0, and every C function as an operator from the state it reads  *)
(* to the state it leaves and its return value.  A function whose code     *)
(* tests the result of a call is split at that call: the operator named    *)
(* after the function makes the call and hands the result to the operator  *)
(* that models the rest of the function body.                              *)
(***************************************************************************)
EXTENDS Integers, Sequences, FiniteSets, TLC

VARIABLES
    pc,           \* position of the driver
    input,        \* content of the file given to huffman_compress
    reader,       \* the BitSR of the running driver
    writer,       \* the BitSW of the running driver (writer.sink is its file)
    frequencies,  \* the frequency table given to huffman_tree_create
    loaded,       \* the frequency table huffman_tree_load read
    tree,         \* the HuffmanTree of the running driver
    hdr,          \* sink content when huffman_tree_save returned
    pad,          \* sink content after the padding line was flushed
    compressed,   \* the file huffman_compress produced
    origTree,     \* the tree huffman_compress encoded with
    nbits,        \* bits huffman_decompress has fed to the automaton
    status,       \* return value of the running driver
    sent,         \* the bits a caller of the writer has handed over so far
    got,          \* what a caller of the reader has been given so far
    last,         \* the last library call: its name, arguments and result
    queue,        \* the PtrPQ of a caller of the queue
    script        \* the calls a caller of the queue still has to make

\* the variables of the callers of the library interfaces
lib == << sent, got, last, queue, script >>

\* the variables of the drivers, apart from pc, reader and writer
prog == << input, frequencies, loaded, tree, hdr, pad, compressed, origTree,
           nbits, status >>

vars == << pc, input, reader, writer, frequencies, loaded, tree, hdr, pad,
           compressed, origTree, nbits, status, sent, got, last, queue, script >>

-----------------------------------------------------------------------------
(* Program constants *)

POSSIBLE_BYTES == 256
DEFAULT_BUFFER_SIZE == 1024
INITIAL_CAPACITY == 16
PADDING_LINE_BYTES == 16
SIZEOF_INT == 4
EXIT_SUCCESS == 0
EXIT_FAILURE == 1
NULL == 0
\* the buffer size main passes to bsr_create and bsw_create
MAIN_BUFFER_SIZE == 0

(* Bounds of the model *)

MaxLen == 3
MaxFreq == 2
MaxBits == 4
MaxCalls == 3
MaxFile == 4
MaxQueueCalls == 4
MaxBody == 2
MaxHeader == 6

Bytes == 0 .. (POSSIBLE_BYTES - 1)

-----------------------------------------------------------------------------
(* uint8_t arithmetic *)

Pow2(n) == 2 ^ n

\* (byte >> (7 - i)) & 1
BitAt(byte, i) == (byte \div Pow2(7 - i)) % 2

\* variant of SetBitAt that counts bit positions from the least significant bit
SetBitAt_lsb(byte, i) == IF (byte \div Pow2(i)) % 2 = 1 THEN byte ELSE byte + Pow2(i)

\* byte | (1 << (7 - i))
SetBitAt(byte, i) == IF BitAt(byte, i) = 1 THEN byte ELSE byte + Pow2(7 - i)

\* (uint8_t)(v >> s)
ShrU8(v, s) == (v \div Pow2(s)) % 256

Min2(a, b) == IF a < b THEN a ELSE b

-----------------------------------------------------------------------------
(* Bit stream writer (IO/bit_stream_writer.c)                              *)
(* A writer is a record; sink is the content of its FILE, io_ok says       *)
(* whether the next fwrite / fflush on that FILE succeeds.  A writer       *)
(* function yields the writer it leaves and the bool it returns.           *)

WOk(w) == [w |-> w, ok |-> TRUE]
WFail(w) == [w |-> w, ok |-> FALSE]

bsw_create(buffer_size) ==
    [ buffer       |-> << >>,
      buffer_size  |-> IF buffer_size = 0 THEN DEFAULT_BUFFER_SIZE ELSE buffer_size,
      current_byte |-> 0,
      bit_pos      |-> 0,
      total_bits   |-> 0,
      has_error    |-> FALSE,
      sink         |-> << >>,
      io_ok        |-> TRUE ]

\* buffer_pos is the number of bytes held in the buffer
buffer_pos(w) == Len(w.buffer)

flush_buffer(w) ==
    IF buffer_pos(w) = 0 THEN WOk(w)
    ELSE IF ~w.io_ok THEN WFail([w EXCEPT !.has_error = TRUE])
    ELSE WOk([w EXCEPT !.sink = w.sink \o w.buffer, !.buffer = << >>])

\* add_byte_to_buffer after its flush_buffer call returned f
add_byte_store(f, byte) ==
    IF ~f.ok THEN WFail(f.w)
    ELSE WOk([f.w EXCEPT !.buffer = Append(f.w.buffer, byte)])

add_byte_to_buffer(w, byte) ==
    add_byte_store(IF buffer_pos(w) >= w.buffer_size THEN flush_buffer(w) ELSE WOk(w),
                   byte)

\* after add_byte_to_buffer(writer, writer->current_byte) returned a:
\* current_byte = 0, bit_pos = 0 unless it failed
start_next_byte(a) ==
    IF ~a.ok THEN WFail(a.w)
    ELSE WOk([a.w EXCEPT !.current_byte = 0, !.bit_pos = 0])

\* bsw_write_bit once bit_pos and total_bits are incremented
complete_byte(w) ==
    IF w.bit_pos = 8
    THEN start_next_byte(add_byte_to_buffer(w, w.current_byte))
    ELSE WOk(w)

bsw_write_bit(w, bit) ==
    IF w.has_error THEN WFail(w)
    ELSE complete_byte(
           [w EXCEPT !.current_byte = IF bit # 0 THEN SetBitAt(w.current_byte, w.bit_pos)
                                      ELSE w.current_byte,
                     !.bit_pos = w.bit_pos + 1,
                     !.total_bits = w.total_bits + 1])

RECURSIVE bsw_write_bits_from(_, _, _, _)
RECURSIVE bsw_write_bits_next(_, _, _, _)

\* the loop of bsw_write_bits from index i on
bsw_write_bits_from(w, values, num_bits, i) ==
    IF i >= num_bits THEN WOk(w)
    ELSE bsw_write_bits_next(bsw_write_bit(w, BitAt(values[(i \div 8) + 1], i % 8)),
                             values, num_bits, i)

\* the loop of bsw_write_bits after its bsw_write_bit call for index i returned r
bsw_write_bits_next(r, values, num_bits, i) ==
    IF ~r.ok THEN r ELSE bsw_write_bits_from(r.w, values, num_bits, i + 1)

bsw_write_bits(w, values, num_bits) ==
    IF w.has_error \/ num_bits > 64 THEN WFail(w)
    ELSE bsw_write_bits_from(w, values, num_bits, 0)

\* the local array bits[8] of bsw_write_byte: one element per bit of byte
bits_of_byte(byte) ==
    << BitAt(byte, 0), BitAt(byte, 1), BitAt(byte, 2), BitAt(byte, 3),
       BitAt(byte, 4), BitAt(byte, 5), BitAt(byte, 6), BitAt(byte, 7) >>

\* the aligned path of bsw_write_byte after add_byte_to_buffer returned a
count_byte(a) ==
    IF ~a.ok THEN WFail(a.w)
    ELSE WOk([a.w EXCEPT !.total_bits = a.w.total_bits + 8])

bsw_write_byte(w, byte) ==
    IF w.bit_pos = 0
    THEN count_byte(add_byte_to_buffer(w, byte))
    ELSE bsw_write_bits(w, bits_of_byte(byte), 8)

RECURSIVE bsw_write_bytes_from(_, _, _, _)
RECURSIVE bsw_write_bytes_next(_, _, _, _)

\* the byte by byte loop of bsw_write_bytes from index i on
bsw_write_bytes_from(w, data, size, i) ==
    IF i >= size THEN WOk(w)
    ELSE bsw_write_bytes_next(bsw_write_byte(w, data[i + 1]), data, size, i)

\* that loop after its bsw_write_byte call for index i returned r
bsw_write_bytes_next(r, data, size, i) ==
    IF ~r.ok THEN r ELSE bsw_write_bytes_from(r.w, data, size, i + 1)

\* the optimized path of bsw_write_bytes after the buffer flush returned f
bsw_write_bytes_bulk(f, data, size) ==
    IF ~f.ok THEN WFail(f.w)
    ELSE IF size >= f.w.buffer_size
    THEN IF ~f.w.io_ok
         THEN WFail([f.w EXCEPT !.has_error = TRUE])
         ELSE WOk([f.w EXCEPT !.sink = f.w.sink \o SubSeq(data, 1, size),
                              !.total_bits = f.w.total_bits + size * 8])
    ELSE WOk([f.w EXCEPT !.buffer = SubSeq(data, 1, size),
                         !.total_bits = f.w.total_bits + size * 8])

\* variant of bsw_write_bytes whose optimized path does not flush the buffer
bsw_write_bytes_unflushed(w, data, size) ==
    IF w.has_error THEN WFail(w)
    ELSE IF w.bit_pos = 0 /\ size > 8
    THEN bsw_write_bytes_bulk(WOk(w), data, size)
    ELSE bsw_write_bytes_from(w, data, size, 0)

bsw_write_bytes(w, data, size) ==
    IF w.has_error THEN WFail(w)
    ELSE IF w.bit_pos = 0 /\ size > 8
    THEN bsw_write_bytes_bulk(IF buffer_pos(w) > 0 THEN flush_buffer(w) ELSE WOk(w),
                              data, size)
    ELSE bsw_write_bytes_from(w, data, size, 0)

\* bsw_flush after flush_buffer returned f: fflush
flush_file(f) ==
    IF ~f.ok THEN f
    ELSE IF ~f.w.io_ok THEN WFail([f.w EXCEPT !.has_error = TRUE])
    ELSE f

\* bsw_flush after the pending byte was dealt with (p)
flush_pending(p) == IF ~p.ok THEN p ELSE flush_file(flush_buffer(p.w))

bsw_flush(w) ==
    flush_pending(IF w.bit_pos > 0
                  THEN start_next_byte(add_byte_to_buffer(w, w.current_byte))
                  ELSE WOk(w))

\* bsw_align_to_byte after add_byte_to_buffer returned a; bit_pos is the
\* cursor the call started with
align_count(a, bit_pos) ==
    IF ~a.ok THEN WFail(a.w)
    ELSE WOk([a.w EXCEPT !.total_bits = a.w.total_bits + (8 - bit_pos),
                         !.current_byte = 0,
                         !.bit_pos = 0])

bsw_align_to_byte(w) ==
    IF w.bit_pos = 0 THEN WOk(w)
    ELSE align_count(add_byte_to_buffer(w, w.current_byte), w.bit_pos)

\* bsw_free: the pending bits are flushed, then the writer is released;
\* the result is the writer as it was when its file was closed
bsw_free(w) == bsw_flush(w).w

bsw_get_bits_written(w) == w.total_bits

bsw_get_bytes_written(w) == (w.total_bits \div 8) + buffer_pos(w)

bsw_has_error(w) == w.has_error

bsw_clear_error(w) == [w EXCEPT !.has_error = FALSE]

-----------------------------------------------------------------------------
(* Bit stream reader (bsr_* functions)                                     *)
(* A reader is a record; file is the content of its FILE, file_pos the     *)
(* FILE's position, file_eof / file_err the FILE's indicators, io_ok says  *)
(* whether the next fread succeeds.  buffer holds buffer[0 ..              *)
(* buffer_filled-1], so buffer_filled is its length.                       *)

\* stands for 2^64 in size_t subtraction that wraps
SIZE_WRAP == 2 ^ 30

\* a - b in size_t
SizeSub(a, b) == IF a >= b THEN a - b ELSE SIZE_WRAP - (b - a)

\* a | b on uint8_t
BitOr(a, b) ==
    LET Or(k) == IF BitAt(a, k) = 1 \/ BitAt(b, k) = 1 THEN Pow2(7 - k) ELSE 0
    IN  Or(0) + Or(1) + Or(2) + Or(3) + Or(4) + Or(5) + Or(6) + Or(7)

RECURSIVE Store(_, _, _)
\* dst[i] = v for a C array dst; a store past the end is kept, not dropped
Store(dst, i, v) ==
    IF i < Len(dst) THEN [dst EXCEPT ![i + 1] = v]
    ELSE IF i = Len(dst) THEN Append(dst, v)
    ELSE Store(Append(dst, 0), i, v)

RECURSIVE StoreAll(_, _, _, _)
\* memcpy(dst + at, src, Len(src)), index k of src first
StoreAll(dst, at, src, k) ==
    IF k > Len(src) THEN dst
    ELSE StoreAll(Store(dst, at + k - 1, src[k]), at, src, k + 1)

\* dst[i], 0 where the model keeps no value
Load(dst, i) == IF i < Len(dst) THEN dst[i + 1] ELSE 0

ROk(r) == [r |-> r, ok |-> TRUE]
RFail(r) == [r |-> r, ok |-> FALSE]

bsr_create(file, buffer_size) ==
    [ file         |-> file,
      file_pos     |-> 0,
      file_eof     |-> FALSE,
      file_err     |-> FALSE,
      io_ok        |-> TRUE,
      buffer       |-> << >>,
      buffer_size  |-> IF buffer_size = 0 THEN DEFAULT_BUFFER_SIZE ELSE buffer_size,
      buffer_pos   |-> 0,
      current_byte |-> 0,
      bit_pos      |-> 8,
      total_bits   |-> 0,
      has_error    |-> FALSE,
      is_eof       |-> FALSE ]

buffer_filled(r) == Len(r.buffer)

\* the bytes fread delivers when asked for n
fread_count(r, n) == IF ~r.io_ok THEN 0 ELSE Min2(n, Len(r.file) - r.file_pos)

\* fread(dst, 1, n, r.file): the bytes delivered and the FILE afterwards
fread(r, n) ==
    IF ~r.io_ok THEN [r |-> [r EXCEPT !.file_err = TRUE], data |-> << >>]
    ELSE [r |-> [r EXCEPT !.file_pos = r.file_pos + fread_count(r, n),
                          !.file_eof = r.file_eof \/ (fread_count(r, n) < n)],
          data |-> SubSeq(r.file, r.file_pos + 1, r.file_pos + fread_count(r, n))]

\* refill_buffer after its fread returned f
refill_done(f) ==
    IF Len(f.data) = 0
    THEN IF f.r.file_eof
         THEN RFail([f.r EXCEPT !.buffer = << >>, !.buffer_pos = 0, !.is_eof = TRUE])
         ELSE RFail([f.r EXCEPT !.buffer = << >>, !.buffer_pos = 0, !.has_error = TRUE])
    ELSE ROk([f.r EXCEPT !.buffer = f.data, !.buffer_pos = 0])

refill_buffer(r) ==
    IF r.is_eof THEN RFail(r) ELSE refill_done(fread(r, r.buffer_size))

\* read_next_byte after the buffer was refilled where needed (f)
take_byte(f) ==
    IF ~f.ok THEN f
    ELSE ROk([f.r EXCEPT !.current_byte = f.r.buffer[f.r.buffer_pos + 1],
                         !.buffer_pos = f.r.buffer_pos + 1,
                         !.bit_pos = 0])

read_next_byte(r) ==
    IF r.bit_pos # 8 THEN ROk(r)
    ELSE take_byte(IF r.buffer_pos >= buffer_filled(r) THEN refill_buffer(r) ELSE ROk(r))

\* bsr_read_bit after read_next_byte returned n; val is what *bit holds
\* afterwards, old what it held before
read_bit_at(n, old) ==
    IF ~n.ok THEN [r |-> n.r, ok |-> FALSE, val |-> old]
    ELSE [r |-> [n.r EXCEPT !.bit_pos = n.r.bit_pos + 1,
                            !.total_bits = n.r.total_bits + 1],
          ok |-> TRUE,
          val |-> BitAt(n.r.current_byte, n.r.bit_pos)]

bsr_read_bit(r, old) ==
    IF r.has_error THEN [r |-> r, ok |-> FALSE, val |-> old]
    ELSE read_bit_at(read_next_byte(r), old)

RECURSIVE bsr_read_bits_from(_, _, _, _)
RECURSIVE bsr_read_bits_next(_, _, _, _)

\* the loop of bsr_read_bits from index i on: bit i is stored in value[i]
bsr_read_bits_from(r, value, num_bits, i) ==
    IF i >= num_bits THEN [r |-> r, n |-> num_bits, value |-> value]
    ELSE bsr_read_bits_next(bsr_read_bit(r, Load(value, i)), value, num_bits, i)

\* that loop after its bsr_read_bit call for index i returned b
bsr_read_bits_next(b, value, num_bits, i) ==
    IF ~b.ok THEN [r |-> b.r, n |-> i, value |-> value]
    ELSE bsr_read_bits_from(b.r, Store(value, i, b.val), num_bits, i + 1)

bsr_read_bits(r, value, num_bits) ==
    IF r.has_error THEN [r |-> r, n |-> 0, value |-> value]
    ELSE bsr_read_bits_from(r, value, num_bits, 0)

\* (uint8_t)(v << (7 - i))
ShlU8(v, i) == (v * Pow2(7 - i)) % 256

RECURSIVE combine_bits(_, _, _)
\* *byte |= value[i] << (7 - i) for i .. 7, *byte holding acc
combine_bits(acc, value, i) ==
    IF i > 7 THEN acc
    ELSE combine_bits(BitOr(acc, ShlU8(value[i + 1], i)), value, i + 1)

\* the bit by bit path of bsr_read_byte after bsr_read_bits returned b
read_byte_bits(b, old) ==
    IF b.n = 8
    THEN [r |-> [b.r EXCEPT !.total_bits = b.r.total_bits + 8],
          ok |-> TRUE,
          val |-> combine_bits(0, b.value, 0)]
    ELSE [r |-> b.r, ok |-> FALSE, val |-> old]

\* bsr_read_byte after read_next_byte returned n
read_byte_at(n, old) ==
    IF ~n.ok THEN [r |-> n.r, ok |-> FALSE, val |-> old]
    ELSE IF n.r.bit_pos = 0
    THEN [r |-> [n.r EXCEPT !.bit_pos = 8, !.total_bits = n.r.total_bits + 8],
          ok |-> TRUE,
          val |-> n.r.current_byte]
    ELSE read_byte_bits(bsr_read_bits(n.r, <<0, 0, 0, 0, 0, 0, 0, 0>>, 8), old)

\* val is what the call left in *byte, which held old before
bsr_read_byte(r, old) ==
    IF r.has_error THEN [r |-> r, ok |-> FALSE, val |-> old]
    ELSE read_byte_at(read_next_byte(r), old)

\* what bsr_read_bytes returns: the reader, the count, the destination
RBytes(r, n, data) == [r |-> r, n |-> n, data |-> data]

RECURSIVE bsr_read_bytes_loop(_, _, _, _)
RECURSIVE bsr_read_bytes_next(_, _, _, _)

\* the closing byte by byte loop of bsr_read_bytes
bsr_read_bytes_loop(r, data, size, bytes_read) ==
    IF bytes_read >= size THEN RBytes(r, bytes_read, data)
    ELSE bsr_read_bytes_next(bsr_read_byte(r, Load(data, bytes_read)),
                             data, size, bytes_read)

\* that loop after its bsr_read_byte call returned b
bsr_read_bytes_next(b, data, size, bytes_read) ==
    IF ~b.ok THEN RBytes(b.r, bytes_read, data)
    ELSE bsr_read_bytes_loop(b.r, Store(data, bytes_read, b.val), size, bytes_read + 1)

\* bsr_read_bytes: the direct read after its fread returned f; r is the
\* reader before the fread, want the number of bytes asked for
read_bytes_direct(r, f, want, data, bytes_read) ==
    RBytes([f.r EXCEPT !.has_error = r.has_error \/ (Len(f.data) < want /\ f.r.file_err),
                       !.is_eof = r.is_eof \/ (Len(f.data) = 0 /\ f.r.file_eof),
                       !.total_bits = r.total_bits + Len(f.data) * 8],
           bytes_read + Len(f.data),
           StoreAll(data, bytes_read, f.data, 1))

\* bsr_read_bytes after refill_buffer returned f
read_bytes_refilled(f, data, size, bytes_read) ==
    IF ~f.ok /\ buffer_filled(f.r) = 0 THEN RBytes(f.r, bytes_read, data)
    ELSE bsr_read_bytes_loop(f.r, data, size, bytes_read)

\* bsr_read_bytes from "Reset buffer for direct reading" on
read_bytes_rest(r, data, size, bytes_read) ==
    IF SizeSub(size, bytes_read) >= r.buffer_size
    THEN read_bytes_direct(r, fread(r, SizeSub(size, bytes_read)),
                           SizeSub(size, bytes_read), data, bytes_read)
    ELSE read_bytes_refilled(refill_buffer(r), data, size, bytes_read)

\* bsr_read_bytes: the copy of to_copy bytes left in the buffer (0 when the
\* buffer holds none) and what follows it; data[0] is read already
read_bytes_copy(r, data, size, to_copy) ==
    IF to_copy > 0 /\ 1 + to_copy = size
    THEN RBytes([r EXCEPT !.buffer_pos = r.buffer_pos + to_copy,
                          !.total_bits = r.total_bits + to_copy * 8],
                1 + to_copy,
                StoreAll(data, 1, SubSeq(r.buffer, r.buffer_pos + 1, r.buffer_pos + to_copy), 1))
    ELSE read_bytes_rest([r EXCEPT !.buffer_pos = 0,
                                   !.buffer = << >>,
                                   !.total_bits = r.total_bits + to_copy * 8],
                         StoreAll(data, 1,
                                  SubSeq(r.buffer, r.buffer_pos + 1, r.buffer_pos + to_copy), 1),
                         size, 1 + to_copy)

\* bsr_read_bytes, aligned path, after bsr_read_byte(reader, &data[0]) returned b
read_bytes_first(b, data, size) ==
    IF ~b.ok THEN RBytes(b.r, 0, data)
    ELSE IF 1 = size THEN RBytes(b.r, 1, Store(data, 0, b.val))
    ELSE read_bytes_copy(b.r, Store(data, 0, b.val), size,
                         IF b.r.buffer_pos < buffer_filled(b.r)
                         THEN Min2(SizeSub(size, 1), buffer_filled(b.r) - b.r.buffer_pos)
                         ELSE 0)

\* bsr_read_bytes after read_next_byte returned n
read_bytes_at(n, data, size) ==
    IF ~n.ok THEN RBytes(n.r, 0, data)
    ELSE IF n.r.bit_pos = 0
    THEN read_bytes_first(bsr_read_byte(n.r, Load(data, 0)), data, size)
    ELSE bsr_read_bytes_loop(n.r, data, size, 0)

\* data is the destination before the call; the result holds it afterwards
bsr_read_bytes(r, data, size) ==
    IF r.has_error THEN RBytes(r, 0, data)
    ELSE read_bytes_at(read_next_byte(r), data, size)

bsr_align_to_byte(r) ==
    IF r.has_error THEN RFail(r)
    ELSE IF r.bit_pos = 0 \/ r.bit_pos = 8 THEN ROk(r)
    ELSE ROk([r EXCEPT !.bit_pos = 8])

\* variant of bsr_rewind that leaves the end-of-file flag as it is
bsr_rewind_keep_eof(r) ==
    IF r.has_error THEN r
    ELSE [r EXCEPT !.buffer_pos = 0,
                   !.buffer = << >>,
                   !.total_bits = 0,
                   !.bit_pos = 8,
                   !.file_pos = 0,
                   !.has_error = r.file_err]

bsr_rewind(r) ==
    IF r.has_error THEN r
    ELSE [r EXCEPT !.buffer_pos = 0,
                   !.buffer = << >>,
                   !.total_bits = 0,
                   !.bit_pos = 8,
                   !.file_pos = 0,
                   !.file_eof = FALSE,
                   !.is_eof = FALSE,
                   !.has_error = r.file_err]

bsr_get_bits_read(r) == r.total_bits

bsr_get_bytes_read(r) == r.total_bits \div 8

bsr_is_eof(r) == r.is_eof

bsr_has_error(r) == r.has_error

bsr_clear_error(r) == [r EXCEPT !.has_error = FALSE]

-----------------------------------------------------------------------------
(* Pointer priority queue (huffman/ptr_pq.c)                               *)
(* A queue is a record: heap holds heap[0 .. size-1], so size is its       *)
(* length.  Elements are node pointers; nodes is the arena they point into *)
(* and the comparator is huffman_node_compare, the only one the program    *)
(* passes to ptr_pq_create.                                                *)

huffman_node_compare(nodes, a, b) ==
    IF a = NULL /\ b = NULL THEN 0
    ELSE nodes[a].frequency - nodes[b].frequency

ptr_pq_create == [ heap |-> << >>, capacity |-> INITIAL_CAPACITY ]

ptr_pq_size(pq) == Len(pq.heap)

\* swap(&heap[i], &heap[j])
swap(heap, i, j) ==
    [heap EXCEPT ![i + 1] = heap[j + 1], ![j + 1] = heap[i + 1]]

\* variant of heapify_up that moves the element up by one level at most
heapify_up_once(nodes, heap, index) ==
    IF index = 0 THEN heap
    ELSE IF huffman_node_compare(nodes, heap[index + 1], heap[(index - 1) \div 2 + 1]) < 0
    THEN swap(heap, index, (index - 1) \div 2)
    ELSE heap

RECURSIVE heapify_up(_, _, _)
heapify_up(nodes, heap, index) ==
    IF index = 0 THEN heap
    ELSE IF huffman_node_compare(nodes, heap[index + 1], heap[(index - 1) \div 2 + 1]) < 0
    THEN heapify_up(nodes, swap(heap, index, (index - 1) \div 2), (index - 1) \div 2)
    ELSE heap

\* heapify_down: smallest after the test of the left child
smaller_left(nodes, heap, index) ==
    IF 2 * index + 1 < Len(heap)
       /\ huffman_node_compare(nodes, heap[2 * index + 2], heap[index + 1]) < 0
    THEN 2 * index + 1 ELSE index

\* variant of smaller_right that never looks at the right child
smaller_right_skip(nodes, heap, index, smallest) == smallest

\* heapify_down: smallest after the test of the right child
smaller_right(nodes, heap, index, smallest) ==
    IF 2 * index + 2 < Len(heap)
       /\ huffman_node_compare(nodes, heap[2 * index + 3], heap[smallest + 1]) < 0
    THEN 2 * index + 2 ELSE smallest

RECURSIVE heapify_down(_, _, _)
RECURSIVE heapify_down_to(_, _, _, _)

heapify_down(nodes, heap, index) ==
    heapify_down_to(nodes, heap, index,
                    smaller_right(nodes, heap, index, smaller_left(nodes, heap, index)))

\* heapify_down once smallest is known
heapify_down_to(nodes, heap, index, smallest) ==
    IF smallest # index
    THEN heapify_down(nodes, swap(heap, index, smallest), smallest)
    ELSE heap

resize_if_needed(pq) ==
    IF ptr_pq_size(pq) >= pq.capacity
    THEN [pq EXCEPT !.capacity = pq.capacity * 2]
    ELSE pq

\* ptr_pq_insert after resize_if_needed left q
insert_at_end(nodes, q, data) ==
    [q EXCEPT !.heap = heapify_up(nodes, Append(q.heap, data), ptr_pq_size(q))]

ptr_pq_insert(nodes, pq, data) == insert_at_end(nodes, resize_if_needed(pq), data)

\* the heap after ptr_pq_extract_min on a queue that is not empty
heap_without_min(nodes, heap) ==
    IF Len(heap) - 1 > 0
    THEN heapify_down(nodes,
                      [SubSeq(heap, 1, Len(heap) - 1) EXCEPT ![1] = heap[Len(heap)]],
                      0)
    ELSE << >>

\* the queue after ptr_pq_extract_min and the element it returned
ptr_pq_extract_min(nodes, pq) ==
    IF ptr_pq_size(pq) = 0 THEN [pq |-> pq, min |-> NULL]
    ELSE [pq |-> [pq EXCEPT !.heap = heap_without_min(nodes, pq.heap)],
          min |-> pq.heap[1]]

\* variant of ptr_pq_peek that returns the last element of the heap array
ptr_pq_peek_last(pq) == IF ptr_pq_size(pq) = 0 THEN NULL ELSE pq.heap[Len(pq.heap)]

ptr_pq_peek(pq) == IF ptr_pq_size(pq) = 0 THEN NULL ELSE pq.heap[1]

ptr_pq_is_empty(pq) == ptr_pq_size(pq) = 0

-----------------------------------------------------------------------------
(* Huffman tree engine (huffman/huffman.c)                                 *)
(* A tree is a record: nodes is the arena of struct HuffmanNode in order   *)
(* of allocation, root and current point into it.  codes[b] is the byte    *)
(* array allocated for b's code, << >> standing for a NULL pointer.        *)

huffman_node_create(byte, frequency) ==
    [ byte |-> byte, frequency |-> frequency, left |-> NULL, right |-> NULL ]

IsLeaf(nodes, n) == nodes[n].left = NULL /\ nodes[n].right = NULL

RECURSIVE TreeNodes(_, _)
\* the nodes below and including n
TreeNodes(nodes, n) ==
    IF n = NULL THEN {}
    ELSE {n} \cup TreeNodes(nodes, nodes[n].left) \cup TreeNodes(nodes, nodes[n].right)

\* the indices i in 0 .. POSSIBLE_BYTES-1 that pass the test freqs[i] > 0
NonZero(freqs) == {i \in Bytes : freqs[i] > 0}

\* the index a loop "for i = 0 .. POSSIBLE_BYTES-1" reaches first among todo
FirstOf(todo) == CHOOSE i \in todo : \A j \in todo : i <= j

\* a node is allocated and inserted in the queue
insert_new(nodes, pq) ==
    [nodes |-> nodes, pq |-> ptr_pq_insert(nodes, pq, Len(nodes))]

RECURSIVE add_leaves(_, _, _)
RECURSIVE add_leaf(_, _, _, _)

\* the loop over i that inserts one leaf per byte of non-zero frequency;
\* todo holds the indices with freqs[i] > 0 the loop has not reached yet,
\* s the nodes and the queue
add_leaves(freqs, todo, s) ==
    IF todo = {} THEN s ELSE add_leaf(freqs, todo, s, FirstOf(todo))

\* the iteration for index i
add_leaf(freqs, todo, s, i) ==
    add_leaves(freqs, todo \ {i},
               insert_new(Append(s.nodes, huffman_node_create(i, freqs[i])), s.pq))

\* variant of parent_node with the two children exchanged
parent_node_swapped(nodes, left, right) ==
    [huffman_node_create(0, nodes[left].frequency + nodes[right].frequency)
        EXCEPT !.left = right, !.right = left]

\* the parent of left and right
parent_node(nodes, left, right) ==
    [huffman_node_create(0, nodes[left].frequency + nodes[right].frequency)
        EXCEPT !.left = left, !.right = right]

\* one iteration of the building loop after the two ptr_pq_extract_min calls
\* returned e1 and then e2
merge_pair(nodes, e1, e2) ==
    insert_new(Append(nodes, parent_node(nodes, e1.min, e2.min)), e2.pq)

\* one iteration of the building loop after the first ptr_pq_extract_min
merge_second(nodes, e1) == merge_pair(nodes, e1, ptr_pq_extract_min(nodes, e1.pq))

\* one iteration of the loop that builds the tree
merge_step(s) == merge_second(s.nodes, ptr_pq_extract_min(s.nodes, s.pq))

RECURSIVE build_tree_stop_early(_)
\* variant of build_tree whose loop stops while two entries remain
build_tree_stop_early(s) ==
    IF ptr_pq_size(s.pq) > 2 THEN build_tree_stop_early(merge_step(s)) ELSE s

RECURSIVE build_tree(_)
build_tree(s) ==
    IF ptr_pq_size(s.pq) > 1 THEN build_tree(merge_step(s)) ELSE s

\* (1 << (7 - j)) if bit i*8+j of the code is below depth and set, else 0
code_bit(code, depth, i, j) ==
    IF i * 8 + j < depth /\ code[i * 8 + j + 1] # 0 THEN Pow2(7 - j) ELSE 0

\* the bytes stored in codes[node->byte] for a leaf at depth: the bits of
\* code[0 .. depth-1] packed most significant first, then the terminator
pack_code(code, depth) ==
    [i \in 1 .. ((depth + 7) \div 8 + 1) |->
        IF i = (depth + 7) \div 8 + 1 THEN 0
        ELSE code_bit(code, depth, i - 1, 0) + code_bit(code, depth, i - 1, 1)
             + code_bit(code, depth, i - 1, 2) + code_bit(code, depth, i - 1, 3)
             + code_bit(code, depth, i - 1, 4) + code_bit(code, depth, i - 1, 5)
             + code_bit(code, depth, i - 1, 6) + code_bit(code, depth, i - 1, 7)]

RECURSIVE generate_codes_rec_same_bit(_, _, _, _, _)
\* variant of generate_codes_rec that stores bit 0 on the way to either child
generate_codes_rec_same_bit(nodes, node, code, depth, t) ==
    IF node = NULL THEN t
    ELSE IF IsLeaf(nodes, node)
    THEN [t EXCEPT !.codes[nodes[node].byte] = pack_code(code, depth),
                   !.code_lengths[nodes[node].byte] = depth]
    ELSE generate_codes_rec_same_bit(nodes, nodes[node].right, Store(code, depth, 0), depth + 1,
            generate_codes_rec_same_bit(nodes, nodes[node].left, Store(code, depth, 0), depth + 1, t))

RECURSIVE generate_codes_rec(_, _, _, _, _)
\* t carries codes and code_lengths
generate_codes_rec(nodes, node, code, depth, t) ==
    IF node = NULL THEN t
    ELSE IF IsLeaf(nodes, node)
    THEN [t EXCEPT !.codes[nodes[node].byte] = pack_code(code, depth),
                   !.code_lengths[nodes[node].byte] = depth]
    ELSE generate_codes_rec(nodes, nodes[node].right, Store(code, depth, 1), depth + 1,
            generate_codes_rec(nodes, nodes[node].left, Store(code, depth, 0), depth + 1, t))

\* variant of generate_codes that starts the traversal at depth 1
generate_codes_depth1(t) == generate_codes_rec(t.nodes, t.root, << 0 >>, 1, t)

generate_codes(t) == generate_codes_rec(t.nodes, t.root, << >>, 0, t)

ZeroTable == [i \in Bytes |-> 0]

\* huffman_tree_create once the building loop has left s
tree_of(s) ==
    [ nodes        |-> s.nodes,
      root         |-> IF ptr_pq_size(s.pq) > 0
                       THEN ptr_pq_extract_min(s.nodes, s.pq).min ELSE NULL,
      codes        |-> [i \in Bytes |-> << >>],
      code_lengths |-> ZeroTable,
      current      |-> NULL ]

\* huffman_tree_create once the tree structure is allocated
with_codes(t) == IF t.root # NULL THEN generate_codes(t) ELSE t

huffman_tree_create(freqs) ==
    with_codes(tree_of(build_tree(
        add_leaves(freqs, NonZero(freqs), [nodes |-> << >>, pq |-> ptr_pq_create]))))

RECURSIVE get_frequencies_rec(_, _, _)
get_frequencies_rec(nodes, node, freqs) ==
    IF node = NULL THEN freqs
    ELSE IF IsLeaf(nodes, node)
    THEN [freqs EXCEPT ![nodes[node].byte] = nodes[node].frequency]
    ELSE get_frequencies_rec(nodes, nodes[node].right,
                             get_frequencies_rec(nodes, nodes[node].left, freqs))

get_frequencies(t, freqs) == get_frequencies_rec(t.nodes, t.root, freqs)

\* variant of header_entry with the frequency least significant byte first
header_entry_le(i, f) ==
    << i % 256,
       ShrU8(f, 8 * (SIZEOF_INT - 1 - 3)),
       ShrU8(f, 8 * (SIZEOF_INT - 1 - 2)),
       ShrU8(f, 8 * (SIZEOF_INT - 1 - 1)) >>

\* the 4 bytes huffman_tree_save writes for byte i of frequency f
header_entry(i, f) ==
    << i % 256,
       ShrU8(f, 8 * (SIZEOF_INT - 1 - 1)),
       ShrU8(f, 8 * (SIZEOF_INT - 1 - 2)),
       ShrU8(f, 8 * (SIZEOF_INT - 1 - 3)) >>

RECURSIVE save_entries(_, _, _)
RECURSIVE save_entry(_, _, _, _)

\* the loop over i of huffman_tree_save (todo as in add_leaves); the results
\* of the writes are not looked at
save_entries(freqTemp, todo, w) ==
    IF todo = {} THEN w ELSE save_entry(freqTemp, todo, w, FirstOf(todo))

\* the iteration for index i
save_entry(freqTemp, todo, w, i) ==
    save_entries(freqTemp, todo \ {i},
                 bsw_write_bytes(w, header_entry(i, freqTemp[i]), SIZEOF_INT).w)

RECURSIVE write_zero_bytes(_, _)
\* for (i = 0; i < n; i++) bsw_write_byte(writer, 0)
write_zero_bytes(w, n) ==
    IF n = 0 THEN w ELSE write_zero_bytes(bsw_write_byte(w, 0).w, n - 1)

\* huffman_tree_save once get_frequencies filled freqTemp
save_table(freqTemp, w) ==
    bsw_flush(bsw_align_to_byte(
        write_zero_bytes(save_entries(freqTemp, NonZero(freqTemp), w), SIZEOF_INT)).w)

huffman_tree_save(t, w) == save_table(get_frequencies(t, ZeroTable), w)

\* variant of entry_frequency that shifts the first frequency byte by 8 only
entry_frequency_short(tempFreq) == tempFreq[2] * 256 + tempFreq[3] * 256 + tempFreq[4]

\* (int)tempFreq[1] << 16 | (int)tempFreq[2] << 8 | (int)tempFreq[3]
entry_frequency(tempFreq) == tempFreq[2] * 65536 + tempFreq[3] * 256 + tempFreq[4]

RECURSIVE load_entries(_, _, _)
RECURSIVE load_entry(_, _)

\* the while(true) loop of huffman_tree_load; tempFreq is what the array
\* holds when the iteration starts
load_entries(r, tempFreq, freqs) ==
    load_entry(bsr_read_bytes(r, tempFreq, SIZEOF_INT), freqs)

\* an iteration after its bsr_read_bytes call returned rd
load_entry(rd, freqs) ==
    IF entry_frequency(rd.data) = 0 THEN [r |-> rd.r, frequencies |-> freqs]
    ELSE load_entries(rd.r, rd.data,
                      [freqs EXCEPT ![rd.data[1]] = entry_frequency(rd.data)])

\* the nodes with the two children of every node exchanged
mirrored_nodes(nodes) ==
    [n \in 1 .. Len(nodes) |->
        [nodes[n] EXCEPT !.left = nodes[n].right, !.right = nodes[n].left]]

\* a tree with the children of every node exchanged and the codes of that tree
mirrored_tree(t) ==
    with_codes([t EXCEPT !.nodes = mirrored_nodes(t.nodes),
                         !.codes = [i \in Bytes |-> << >>],
                         !.code_lengths = ZeroTable])

\* variant of load_tree whose tree has the children of every node exchanged
load_tree_mirrored(l) ==
    [r |-> l.r, frequencies |-> l.frequencies,
     tree |-> mirrored_tree(huffman_tree_create(l.frequencies))]

\* huffman_tree_load once the loop has left l
load_tree(l) ==
    [r |-> l.r, frequencies |-> l.frequencies, tree |-> huffman_tree_create(l.frequencies)]

\* uninit is the content of the uninitialised local tempFreq
huffman_tree_load(r, uninit) == load_tree(load_entries(r, uninit, ZeroTable))

huffman_tree_get_code(t, byte) == t.codes[byte]

huffman_tree_get_code_length(t, byte) == t.code_lengths[byte]

huffman_tree_total_frequencies(t) ==
    IF t.root = NULL THEN 0 ELSE t.nodes[t.root].frequency

\* huffman_tree_decode_bit once the cursor has moved to node to
decode_at(t, to, old) ==
    IF to # NULL /\ IsLeaf(t.nodes, to)
    THEN [t |-> [t EXCEPT !.current = NULL], ret |-> 1, byte |-> t.nodes[to].byte]
    ELSE [t |-> [t EXCEPT !.current = to], ret |-> 0, byte |-> old]

\* variant of decode_from that goes right on bit 0 and left on bit 1
decode_from_flipped(t, from, bit, old) ==
    decode_at(t, IF bit = 0 THEN t.nodes[from].right ELSE t.nodes[from].left, old)

\* huffman_tree_decode_bit with the cursor on node from
decode_from(t, from, bit, old) ==
    decode_at(t, IF bit = 0 THEN t.nodes[from].left ELSE t.nodes[from].right, old)

\* the tree after the call (its cursor moved), the return value and *decoded_byte
huffman_tree_decode_bit(t, bit, old) ==
    IF t.current = NULL /\ t.root = NULL
    THEN [t |-> t, ret |-> -1, byte |-> old]
    ELSE decode_from(t, IF t.current = NULL THEN t.root ELSE t.current, bit, old)

-----------------------------------------------------------------------------
(* The drivers huffman_compress and huffman_decompress (main.c)            *)

\* byte values the short inputs are made of
Alphabet == {65, 66, 200}

\* buffer_size arguments the streams are created with (0 asks for the default)
BufferSizes == {0, 2}

\* values of an uninitialised uint8_t that the model tries
UninitBytes == {0, 255}

\* byte values the padding line may be made of
PaddingBytes == {0, 255}

Rep(b, n) == [i \in 1 .. n |-> b]

\* nine byte values with counts 29, 18, 11, 7, 4, 3, 1, 1, 1: the tree built
\* for them has leaves at depth 8; the rare bytes follow a byte coded in 1 bit
DeepInput ==
    <<97, 103, 97, 104, 97, 105>> \o Rep(97, 26) \o Rep(98, 18) \o Rep(99, 11)
        \o Rep(100, 7) \o Rep(101, 4) \o Rep(102, 3)

Inputs == (UNION {[1 .. n -> Alphabet] : n \in 0 .. MaxLen}) \cup {DeepInput}

\* the value tree holds while the driver has built none
NoTree == huffman_tree_create(ZeroTable)

RECURSIVE write_padding_bytes(_, _, _)
write_padding_bytes(w, v, n) ==
    IF n = 0 THEN w ELSE write_padding_bytes(bsw_write_byte(w, v).w, v, n - 1)

\* the padding line huffman_decompress skips: PADDING_LINE_BYTES bytes
bsw_write_padding_line(w, v) == write_padding_bytes(w, v, PADDING_LINE_BYTES)

\* the writes of huffman_compress for one input byte
write_code(w, code, code_length) ==
    IF code # << >> /\ code_length > 0
    THEN IF code_length >= 8
         THEN bsw_write_bits(bsw_write_bytes(w, code, code_length \div 8).w,
                             SubSeq(code, code_length \div 8 + 1, Len(code)),
                             code_length % 8).w
         ELSE bsw_write_bits(w, code, code_length).w
    ELSE w

RECURSIVE skip_bytes(_, _)
\* for (i = 0; i < n; i++) bsr_read_byte(reader, &byte)
skip_bytes(r, n) ==
    IF n = 0 THEN r ELSE skip_bytes(bsr_read_byte(r, 0).r, n - 1)

\* no library call made yet
NoCall == [op |-> "none"]

\* the callers of the library interfaces have not started
LibIdle ==
    /\ sent = << >>
    /\ got = << >>
    /\ last = NoCall
    /\ queue = ptr_pq_create
    /\ script = << >>

Init ==
    /\ pc = "count"
    /\ input \in Inputs
    /\ reader = bsr_create(input, MAIN_BUFFER_SIZE)
    /\ writer = bsw_create(MAIN_BUFFER_SIZE)
    /\ frequencies = ZeroTable
    /\ loaded = ZeroTable
    /\ tree = NoTree
    /\ hdr = << >>
    /\ pad = << >>
    /\ compressed = << >>
    /\ origTree = NoTree
    /\ nbits = 0
    /\ status = EXIT_SUCCESS
    /\ LibIdle

\* huffman_compress: one iteration of the counting loop
CompressCount ==
    /\ pc = "count"
    /\ LET b == bsr_read_byte(reader, 0)
       IN  /\ b.ok
           /\ reader' = b.r
           /\ frequencies' = [frequencies EXCEPT ![b.val] = frequencies[b.val] + 1]
    /\ UNCHANGED << pc, input, writer, loaded, tree, hdr, pad, compressed, origTree, nbits, status >>
    /\ UNCHANGED lib

\* huffman_compress: the counting loop ends, the tree is built and saved
CompressSave ==
    /\ pc = "count"
    /\ LET b == bsr_read_byte(reader, 0)
           t == huffman_tree_create(frequencies)
           s == huffman_tree_save(t, writer)
       IN  /\ ~b.ok
           /\ reader' = b.r
           /\ tree' = t
           /\ writer' = s.w
           /\ hdr' = s.w.sink
    /\ pc' = "pad"
    /\ UNCHANGED << input, frequencies, loaded, pad, compressed, origTree, nbits, status >>
    /\ UNCHANGED lib

\* huffman_compress: padding line, flush, rewind
CompressPad ==
    /\ pc = "pad"
    /\ \E v \in PaddingBytes :
          LET w == bsw_flush(bsw_write_padding_line(writer, v)).w
          IN  /\ writer' = w
              /\ pad' = w.sink
    /\ reader' = bsr_rewind(reader)
    /\ pc' = "body"
    /\ UNCHANGED << input, frequencies, loaded, tree, hdr, compressed, origTree, nbits, status >>
    /\ UNCHANGED lib

\* huffman_compress: one iteration of the encoding loop
CompressEncode ==
    /\ pc = "body"
    /\ LET b == bsr_read_byte(reader, 0)
       IN  /\ b.ok
           /\ reader' = b.r
           /\ writer' = write_code(writer,
                                   huffman_tree_get_code(tree, b.val),
                                   huffman_tree_get_code_length(tree, b.val))
    /\ UNCHANGED << pc, input, frequencies, loaded, tree, hdr, pad, compressed, origTree, nbits, status >>
    /\ UNCHANGED lib

\* huffman_compress: the encoding loop ends; destroy, align, flush, return
CompressFinish ==
    /\ pc = "body"
    /\ LET b == bsr_read_byte(reader, 0)
           w == bsw_flush(bsw_align_to_byte(writer).w).w
       IN  /\ ~b.ok
           /\ reader' = b.r
           /\ writer' = w
           /\ compressed' = w.sink
    /\ origTree' = tree
    /\ tree' = NoTree
    /\ status' = EXIT_SUCCESS
    /\ pc' = "compressed"
    /\ UNCHANGED << input, frequencies, loaded, hdr, pad, nbits >>
    /\ UNCHANGED lib

\* huffman_decompress on the compressed file: load the tree, skip the padding line
DecompressLoad ==
    /\ pc = "compressed"
    /\ \E u \in UninitBytes :
          LET l == huffman_tree_load(bsr_create(compressed, MAIN_BUFFER_SIZE), <<u, u, u, u>>)
          IN  /\ reader' = skip_bytes(l.r, PADDING_LINE_BYTES)
              /\ tree' = l.tree
              /\ loaded' = l.frequencies
              /\ writer' = bsw_create(MAIN_BUFFER_SIZE)
    /\ nbits' = 0
    /\ pc' = "decode"
    /\ UNCHANGED << input, frequencies, hdr, pad, compressed, origTree, status >>
    /\ UNCHANGED lib

\* huffman_decompress: one iteration of the decoding loop
DecompressBit ==
    /\ pc = "decode"
    /\ LET b == bsr_read_bit(reader, 0)
           d == huffman_tree_decode_bit(tree, b.val, 0)
       IN  /\ b.ok
           /\ reader' = b.r
           /\ nbits' = nbits + 1
           /\ IF d.ret = -1
              THEN /\ tree' = NoTree
                   /\ status' = EXIT_FAILURE
                   /\ pc' = "done"
                   /\ UNCHANGED writer
              ELSE /\ tree' = d.t
                   /\ writer' = IF d.ret = 1 THEN bsw_write_byte(writer, d.byte).w ELSE writer
                   /\ UNCHANGED << pc, status >>
    /\ UNCHANGED << input, frequencies, loaded, hdr, pad, compressed, origTree >>
    /\ UNCHANGED lib

\* huffman_decompress: the decoding loop ends; destroy, align, flush, return
DecompressFinish ==
    /\ pc = "decode"
    /\ LET b == bsr_read_bit(reader, 0)
       IN  /\ ~b.ok
           /\ reader' = b.r
    /\ writer' = bsw_flush(bsw_align_to_byte(writer).w).w
    /\ tree' = NoTree
    /\ status' = EXIT_SUCCESS
    /\ pc' = "done"
    /\ UNCHANGED << input, frequencies, loaded, hdr, pad, compressed, origTree, nbits >>
    /\ UNCHANGED lib

Next ==
    \/ CompressCount
    \/ CompressSave
    \/ CompressPad
    \/ CompressEncode
    \/ CompressFinish
    \/ DecompressLoad
    \/ DecompressBit
    \/ DecompressFinish

Spec == Init /\ [][Next]_vars

-----------------------------------------------------------------------------
(* The tree interface of huffman.h driven by a caller's frequency table:   *)
(* huffman_tree_create, then huffman_tree_save on a writer, then           *)
(* huffman_tree_load on a reader over the bytes saved.                     *)

TableBytes == {0, 65, 66, 255}
FreqValues == (0 .. MaxFreq) \cup {258, 2 ^ 24 - 1, 2 ^ 24}
Tables ==
    {[i \in Bytes |-> IF i \in TableBytes THEN f[i] ELSE 0] :
        f \in [TableBytes -> FreqValues]}

InitTable ==
    /\ pc = "table"
    /\ input = << >>
    /\ frequencies \in Tables
    /\ \E bs \in BufferSizes :
          /\ reader = bsr_create(<< >>, bs)
          /\ writer = bsw_create(bs)
    /\ loaded = ZeroTable
    /\ tree = NoTree
    /\ hdr = << >>
    /\ pad = << >>
    /\ compressed = << >>
    /\ origTree = NoTree
    /\ nbits = 0
    /\ status = EXIT_SUCCESS
    /\ LibIdle

\* tree = huffman_tree_create(frequencies)
TableCreate ==
    /\ pc = "table"
    /\ tree' = huffman_tree_create(frequencies)
    /\ pc' = "created"
    /\ UNCHANGED << input, reader, writer, frequencies, loaded, hdr, pad,
                    compressed, origTree, nbits, status >>
    /\ UNCHANGED lib

\* huffman_tree_save(tree, writer)
TableSave ==
    /\ pc = "created"
    /\ LET s == huffman_tree_save(tree, writer)
       IN  /\ writer' = s.w
           /\ hdr' = s.w.sink
    /\ pc' = "saved"
    /\ UNCHANGED << input, reader, frequencies, loaded, tree, pad,
                    compressed, origTree, nbits, status >>
    /\ UNCHANGED lib

\* tree = huffman_tree_load(reader) on the bytes saved
TableLoad ==
    /\ pc = "saved"
    /\ \E bs \in BufferSizes, u \in UninitBytes :
          LET l == huffman_tree_load(bsr_create(hdr, bs), <<u, u, u, u>>)
          IN  /\ reader' = l.r
              /\ loaded' = l.frequencies
              /\ tree' = l.tree
    /\ origTree' = tree
    /\ pc' = "loaded"
    /\ UNCHANGED << input, writer, frequencies, hdr, pad, compressed, nbits, status >>
    /\ UNCHANGED lib

NextTable ==
    \/ TableCreate
    \/ TableSave
    \/ TableLoad

SpecTable == InitTable /\ [][NextTable]_vars

-----------------------------------------------------------------------------
(* A caller that writes bits one at a time with bsw_write_bit, flushes,    *)
(* and reads the file back one bit at a time with bsr_read_bit.            *)

BitSeqs(n) == UNION {[1 .. k -> {0, 1}] : k \in 0 .. n}

\* the bit sequences the caller writes: every short one, and longer ones
\* that fill more than one byte and more than one buffer
BitInputs ==
    BitSeqs(MaxBits)
        \cup {<<1, 0, 1, 1, 0, 0, 1, 0>>,
              <<1, 0, 1, 1, 0, 0, 1, 0, 1>>,
              <<0, 1, 1, 0, 1, 0, 0, 1, 1, 1, 0, 0, 0, 1, 0, 1, 1>>}

\* buffer sizes the caller asks for: the default, and one byte
SmallBufferSizes == {0, 1}

InitBits ==
    /\ pc = "bits"
    /\ input \in BitInputs
    /\ \E bs \in SmallBufferSizes :
          /\ writer = bsw_create(bs)
          /\ reader = bsr_create(<< >>, bs)
    /\ frequencies = ZeroTable
    /\ loaded = ZeroTable
    /\ tree = NoTree
    /\ hdr = << >>
    /\ pad = << >>
    /\ compressed = << >>
    /\ origTree = NoTree
    /\ nbits = 0
    /\ status = EXIT_SUCCESS
    /\ LibIdle

\* bsw_write_bit(writer, next bit of input)
BitsWrite ==
    /\ pc = "bits"
    /\ Len(sent) < Len(input)
    /\ LET w == bsw_write_bit(writer, input[Len(sent) + 1])
       IN  /\ writer' = w.w
           /\ sent' = IF w.ok THEN Append(sent, input[Len(sent) + 1]) ELSE sent
           /\ last' = [op |-> "write_bit", ok |-> w.ok]
    /\ UNCHANGED << pc, reader, got, queue, script >>
    /\ UNCHANGED prog

\* bsw_flush(writer), then a reader is created on the file written
BitsFlush ==
    /\ pc = "bits"
    /\ Len(sent) = Len(input)
    /\ LET w == bsw_flush(writer)
       IN  /\ writer' = w.w
           /\ reader' = bsr_create(w.w.sink, reader.buffer_size)
           /\ last' = [op |-> "flush", ok |-> w.ok]
    /\ pc' = "readback"
    /\ UNCHANGED << sent, got, queue, script >>
    /\ UNCHANGED prog

\* bsr_read_bit(reader, &bit) returns true
BitsRead ==
    /\ pc = "readback"
    /\ LET b == bsr_read_bit(reader, 0)
       IN  /\ b.ok
           /\ reader' = b.r
           /\ got' = Append(got, b.val)
           /\ last' = [op |-> "read_bit", ok |-> TRUE]
    /\ UNCHANGED << pc, writer, sent, queue, script >>
    /\ UNCHANGED prog

\* bsr_read_bit(reader, &bit) returns false
BitsEnd ==
    /\ pc = "readback"
    /\ LET b == bsr_read_bit(reader, 0)
       IN  /\ ~b.ok
           /\ reader' = b.r
           /\ last' = [op |-> "read_bit", ok |-> FALSE]
    /\ pc' = "bitsdone"
    /\ UNCHANGED << writer, sent, got, queue, script >>
    /\ UNCHANGED prog

NextBits ==
    \/ BitsWrite
    \/ BitsFlush
    \/ BitsRead
    \/ BitsEnd

SpecBits == InitBits /\ [][NextBits]_vars

-----------------------------------------------------------------------------
(* A caller of the writer interface: any calls in any order, on a file     *)
(* whose writes may start to fail.  sent is the bit sequence the calls     *)
(* that returned true have handed over, with the zero bits that align and  *)
(* flush add; last.before is the writer the last call started with.        *)

\* the byte, the bit array and the byte arrays the caller passes
CallByte == 165
CallBits == <<165, 192>>
CallBitCount == 3
CallBlocks == {<<165, 60>>, <<1, 2, 3, 4, 5, 6, 7, 8, 9>>}

\* the number of calls made so far
CallCount == IF last.op = "none" THEN 0 ELSE last.n

\* the bits of a byte, most significant first
ByteBits(b) == [k \in 1 .. 8 |-> BitAt(b, k - 1)]

RECURSIVE BitsOfBytes(_)
\* the bits of a byte sequence, first byte first
BitsOfBytes(s) ==
    IF s = << >> THEN << >>
    ELSE BitsOfBytes(SubSeq(s, 1, Len(s) - 1)) \o ByteBits(s[Len(s)])

\* the first n bits packed in values
PackedBits(values, n) == SubSeq(BitsOfBytes(values), 1, n)

\* s followed by zero bits up to the next multiple of 8
ZeroPadded(s) == s \o [k \in 1 .. ((8 - (Len(s) % 8)) % 8) |-> 0]

\* the record kept of a writer call
WriterCall(op, arg, res) ==
    [op |-> op, arg |-> arg, ok |-> res.ok, before |-> writer, n |-> CallCount + 1]

InitWriter ==
    /\ pc = "writing"
    /\ input = << >>
    /\ \E bs \in SmallBufferSizes :
          /\ writer = bsw_create(bs)
          /\ reader = bsr_create(<< >>, bs)
    /\ frequencies = ZeroTable
    /\ loaded = ZeroTable
    /\ tree = NoTree
    /\ hdr = << >>
    /\ pad = << >>
    /\ compressed = << >>
    /\ origTree = NoTree
    /\ nbits = 0
    /\ status = EXIT_SUCCESS
    /\ LibIdle

\* what every writer call leaves alone
WriterFrame ==
    /\ UNCHANGED << reader, got, queue, script >>
    /\ UNCHANGED prog

\* a writer call that returned res and hands over bits when it returns true
WriterDid(op, arg, res, bits) ==
    /\ writer' = res.w
    /\ sent' = IF res.ok THEN bits ELSE sent
    /\ last' = WriterCall(op, arg, res)

WWriteBit ==
    /\ pc = "writing" /\ CallCount < MaxCalls
    /\ \E b \in {0, 1} :
          WriterDid("write_bit", b, bsw_write_bit(writer, b), Append(sent, b))
    /\ UNCHANGED pc
    /\ WriterFrame

WWriteBits ==
    /\ pc = "writing" /\ CallCount < MaxCalls
    /\ WriterDid("write_bits", CallBits, bsw_write_bits(writer, CallBits, CallBitCount),
                 sent \o PackedBits(CallBits, CallBitCount))
    /\ UNCHANGED pc
    /\ WriterFrame

WWriteByte ==
    /\ pc = "writing" /\ CallCount < MaxCalls
    /\ WriterDid("write_byte", CallByte, bsw_write_byte(writer, CallByte),
                 sent \o ByteBits(CallByte))
    /\ UNCHANGED pc
    /\ WriterFrame

WWriteBytes ==
    /\ pc = "writing" /\ CallCount < MaxCalls
    /\ \E d \in CallBlocks :
          WriterDid("write_bytes", d, bsw_write_bytes(writer, d, Len(d)),
                    sent \o BitsOfBytes(d))
    /\ UNCHANGED pc
    /\ WriterFrame

WAlign ==
    /\ pc = "writing" /\ CallCount < MaxCalls
    /\ WriterDid("align", 0, bsw_align_to_byte(writer), ZeroPadded(sent))
    /\ UNCHANGED pc
    /\ WriterFrame

WFlush ==
    /\ pc = "writing" /\ CallCount < MaxCalls
    /\ WriterDid("flush", 0, bsw_flush(writer), ZeroPadded(sent))
    /\ UNCHANGED pc
    /\ WriterFrame

\* bsw_free: the flush at teardown
WFree ==
    /\ pc = "writing"
    /\ WriterDid("free", 0, bsw_flush(writer), ZeroPadded(sent))
    /\ pc' = "closed"
    /\ WriterFrame

WClearError ==
    /\ pc = "writing" /\ CallCount < MaxCalls
    /\ writer.has_error
    /\ writer' = bsw_clear_error(writer)
    /\ last' = [op |-> "clear_error", arg |-> 0, ok |-> TRUE, before |-> writer,
                n |-> CallCount + 1]
    /\ UNCHANGED << pc, sent >>
    /\ WriterFrame

\* the file stops taking writes (fwrite and fflush fail from now on)
WSinkBreaks ==
    /\ pc = "writing"
    /\ writer.io_ok
    /\ writer' = [writer EXCEPT !.io_ok = FALSE]
    /\ UNCHANGED << pc, sent, last >>
    /\ WriterFrame

NextWriter ==
    \/ WWriteBit
    \/ WWriteBits
    \/ WWriteByte
    \/ WWriteBytes
    \/ WAlign
    \/ WFlush
    \/ WFree
    \/ WClearError
    \/ WSinkBreaks

SpecWriter == InitWriter /\ [][NextWriter]_vars

-----------------------------------------------------------------------------
(* A caller of the reader interface: any calls in any order, on a file     *)
(* whose reads may start to fail.  last keeps the call, what it returned   *)
(* (ret), what it left in the caller's array or byte (data), and the       *)
(* reader it started with (before).                                        *)

FilePattern == <<165, 60, 15, 129, 255, 0>>

\* the files the caller opens
ReadFiles == {SubSeq(FilePattern, 1, k) : k \in 0 .. MaxFile}

\* the num_bits and size arguments the caller passes
ReadBitCounts == {3, 10}
ReadSizes == {0, 2, 5}

\* a caller's array of n bytes, zeroed
Zeroes(n) == [k \in 1 .. n |-> 0]

\* a bool result as the count of items delivered
Returned(ok) == IF ok THEN 1 ELSE 0

\* arg is the number of items asked for, ret the number delivered
ReaderCall(op, arg, ret, data) ==
    [op |-> op, arg |-> arg, ret |-> ret, data |-> data, before |-> reader,
     n |-> CallCount + 1]

InitReader ==
    /\ pc = "reading"
    /\ input \in ReadFiles
    /\ \E bs \in SmallBufferSizes :
          /\ reader = bsr_create(input, bs)
          /\ writer = bsw_create(bs)
    /\ frequencies = ZeroTable
    /\ loaded = ZeroTable
    /\ tree = NoTree
    /\ hdr = << >>
    /\ pad = << >>
    /\ compressed = << >>
    /\ origTree = NoTree
    /\ nbits = 0
    /\ status = EXIT_SUCCESS
    /\ LibIdle

\* what every reader call leaves alone
ReaderFrame ==
    /\ UNCHANGED << pc, writer, sent, got, queue, script >>
    /\ UNCHANGED prog

RReadBit ==
    /\ pc = "reading" /\ CallCount < MaxCalls
    /\ LET b == bsr_read_bit(reader, 0)
       IN  /\ reader' = b.r
           /\ last' = ReaderCall("read_bit", 1, Returned(b.ok), <<b.val>>)
    /\ ReaderFrame

RReadBits ==
    /\ pc = "reading" /\ CallCount < MaxCalls
    /\ \E k \in ReadBitCounts :
          LET b == bsr_read_bits(reader, Zeroes(k), k)
          IN  /\ reader' = b.r
              /\ last' = ReaderCall("read_bits", k, b.n, b.value)
    /\ ReaderFrame

RReadByte ==
    /\ pc = "reading" /\ CallCount < MaxCalls
    /\ LET b == bsr_read_byte(reader, 0)
       IN  /\ reader' = b.r
           /\ last' = ReaderCall("read_byte", 1, Returned(b.ok), <<b.val>>)
    /\ ReaderFrame

RReadBytes ==
    /\ pc = "reading" /\ CallCount < MaxCalls
    /\ \E k \in ReadSizes :
          LET b == bsr_read_bytes(reader, Zeroes(k), k)
          IN  /\ reader' = b.r
              /\ last' = ReaderCall("read_bytes", k, b.n, b.data)
    /\ ReaderFrame

RAlign ==
    /\ pc = "reading" /\ CallCount < MaxCalls
    /\ LET a == bsr_align_to_byte(reader)
       IN  /\ reader' = a.r
           /\ last' = ReaderCall("align", 1, Returned(a.ok), << >>)
    /\ ReaderFrame

RRewind ==
    /\ pc = "reading" /\ CallCount < MaxCalls
    /\ reader' = bsr_rewind(reader)
    /\ last' = ReaderCall("rewind", 0, 0, << >>)
    /\ ReaderFrame

RClearError ==
    /\ pc = "reading" /\ CallCount < MaxCalls
    /\ reader.has_error
    /\ reader' = bsr_clear_error(reader)
    /\ last' = ReaderCall("clear_error", 0, 0, << >>)
    /\ ReaderFrame

\* the file stops giving data (fread fails from now on)
RSourceBreaks ==
    /\ pc = "reading"
    /\ reader.io_ok
    /\ reader' = [reader EXCEPT !.io_ok = FALSE]
    /\ UNCHANGED last
    /\ ReaderFrame

NextReader ==
    \/ RReadBit
    \/ RReadBits
    \/ RReadByte
    \/ RReadBytes
    \/ RAlign
    \/ RRewind
    \/ RClearError
    \/ RSourceBreaks

SpecReader == InitReader /\ [][NextReader]_vars

-----------------------------------------------------------------------------
(* A caller of the priority queue: it makes the calls of a script, one at  *)
(* a time.  The elements are pointers to the nodes of QueueNodes, compared *)
(* by huffman_node_compare; last keeps the call, what it returned (ret)    *)
(* and the queue it started with (before).                                 *)

\* the frequencies of the nodes the caller inserts
QueueFrequencies == <<5, 3, 5, 3, 1, 9, 2, 7, 5, 6, 4, 10, 1, 12, 11, 2, 13, 8, 1, 6>>

QueueNodes == [k \in 1 .. Len(QueueFrequencies) |-> huffman_node_create(0, QueueFrequencies[k])]

QInsertOf(e) == [op |-> "insert", data |-> e]
QExtractCall == [op |-> "extract", data |-> NULL]
QPeekCall == [op |-> "peek", data |-> NULL]

\* the calls of the short scripts
ShortCalls == {QInsertOf(1), QInsertOf(2), QInsertOf(3), QExtractCall, QPeekCall}

\* no pointer is inserted twice
DistinctInserts(s) ==
    \A i, j \in 1 .. Len(s) :
        i # j /\ s[i].op = "insert" /\ s[j].op = "insert" => s[i].data # s[j].data

ShortScripts ==
    {s \in UNION {[1 .. k -> ShortCalls] : k \in 0 .. MaxQueueCalls} : DistinctInserts(s)}

\* ptr_pq_insert of the nodes from .. to, in that order
Inserts(from, to) ==
    IF from <= to THEN [k \in 1 .. (to - from + 1) |-> QInsertOf(from + k - 1)]
    ELSE [k \in 1 .. (from - to + 1) |-> QInsertOf(from - k + 1)]

Extracts(n) == [k \in 1 .. n |-> QExtractCall]

\* scripts that grow the queue past INITIAL_CAPACITY
LongScripts ==
    { Inserts(1, 18) \o Extracts(19),
      Inserts(18, 1) \o <<QPeekCall>> \o Extracts(18),
      Inserts(1, 17) \o Extracts(5) \o Inserts(18, 20) \o <<QPeekCall>> \o Extracts(15) }

InitQueue ==
    /\ pc = "queue"
    /\ input = << >>
    /\ reader = bsr_create(<< >>, MAIN_BUFFER_SIZE)
    /\ writer = bsw_create(MAIN_BUFFER_SIZE)
    /\ frequencies = ZeroTable
    /\ loaded = ZeroTable
    /\ tree = NoTree
    /\ hdr = << >>
    /\ pad = << >>
    /\ compressed = << >>
    /\ origTree = NoTree
    /\ nbits = 0
    /\ status = EXIT_SUCCESS
    /\ sent = << >>
    /\ got = << >>
    /\ last = NoCall
    /\ queue = ptr_pq_create
    /\ script \in ShortScripts \cup LongScripts

\* what every queue call leaves alone
QueueFrame ==
    /\ UNCHANGED << pc, reader, writer, sent, got >>
    /\ UNCHANGED prog

QueueCall(op, arg, ret) ==
    [op |-> op, arg |-> arg, ret |-> ret, before |-> queue, n |-> CallCount + 1]

QInsert ==
    /\ pc = "queue" /\ script # << >> /\ Head(script).op = "insert"
    /\ queue' = ptr_pq_insert(QueueNodes, queue, Head(script).data)
    /\ last' = QueueCall("insert", Head(script).data, 1)
    /\ script' = Tail(script)
    /\ QueueFrame

QExtract ==
    /\ pc = "queue" /\ script # << >> /\ Head(script).op = "extract"
    /\ LET e == ptr_pq_extract_min(QueueNodes, queue)
       IN  /\ queue' = e.pq
           /\ last' = QueueCall("extract", NULL, e.min)
    /\ script' = Tail(script)
    /\ QueueFrame

QPeek ==
    /\ pc = "queue" /\ script # << >> /\ Head(script).op = "peek"
    /\ last' = QueueCall("peek", NULL, ptr_pq_peek(queue))
    /\ script' = Tail(script)
    /\ UNCHANGED queue
    /\ QueueFrame

NextQueue ==
    \/ QInsert
    \/ QExtract
    \/ QPeek

SpecQueue == InitQueue /\ [][NextQueue]_vars

-----------------------------------------------------------------------------
(* huffman_decompress on a file that huffman_compress need not have        *)
(* written: a well-formed header, the padding line and any body bytes.     *)

\* headers: no entry, one entry (a single-leaf tree), two entries
DecodeHeaders ==
    { <<0, 0, 0, 0>>,
      <<65, 0, 0, 2, 0, 0, 0, 0>>,
      <<65, 0, 0, 1, 66, 0, 0, 1, 0, 0, 0, 0>> }

DecodeBodies == UNION {[1 .. k -> {0, 64, 255}] : k \in 0 .. MaxBody}

DecodeFiles ==
    {h \o [k \in 1 .. PADDING_LINE_BYTES |-> 0] \o b : h \in DecodeHeaders, b \in DecodeBodies}

InitDecode ==
    /\ pc = "compressed"
    /\ compressed \in DecodeFiles
    /\ input = << >>
    /\ reader = bsr_create(<< >>, MAIN_BUFFER_SIZE)
    /\ writer = bsw_create(MAIN_BUFFER_SIZE)
    /\ frequencies = ZeroTable
    /\ loaded = ZeroTable
    /\ tree = NoTree
    /\ hdr = << >>
    /\ pad = << >>
    /\ origTree = NoTree
    /\ nbits = 0
    /\ status = EXIT_SUCCESS
    /\ LibIdle

NextDecode ==
    \/ DecompressLoad
    \/ DecompressBit
    \/ DecompressFinish

SpecDecode == InitDecode /\ [][NextDecode]_vars

-----------------------------------------------------------------------------
(* huffman_decompress on a file whose header may end anywhere: the loop of *)
(* huffman_tree_load is taken one iteration at a time, got is the local    *)
(* array tempFreq and loaded the local table frequencies.                  *)

\* one iteration of the while(true) loop after bsr_read_bytes returned rd
load_iteration_after(rd, freqs) ==
    [ r           |-> rd.r,
      tempFreq    |-> rd.data,
      stop        |-> entry_frequency(rd.data) = 0,
      frequencies |-> IF entry_frequency(rd.data) = 0 THEN freqs
                      ELSE [freqs EXCEPT ![rd.data[1]] = entry_frequency(rd.data)] ]

\* one iteration of the while(true) loop of huffman_tree_load
load_iteration(r, tempFreq, freqs) ==
    load_iteration_after(bsr_read_bytes(r, tempFreq, SIZEOF_INT), freqs)

\* byte values the short files are made of
HeaderBytes == {0, 1, 65}

\* every file of up to MaxHeader bytes, and the files with a body
LoadFiles == (UNION {[1 .. n -> HeaderBytes] : n \in 0 .. MaxHeader}) \cup DecodeFiles

InitLoad ==
    /\ pc = "header"
    /\ compressed \in LoadFiles
    /\ reader = bsr_create(compressed, MAIN_BUFFER_SIZE)
    /\ \E u \in UninitBytes : got = <<u, u, u, u>>
    /\ loaded = ZeroTable
    /\ input = << >>
    /\ writer = bsw_create(MAIN_BUFFER_SIZE)
    /\ frequencies = ZeroTable
    /\ tree = NoTree
    /\ hdr = << >>
    /\ pad = << >>
    /\ origTree = NoTree
    /\ nbits = 0
    /\ status = EXIT_SUCCESS
    /\ sent = << >>
    /\ last = NoCall
    /\ queue = ptr_pq_create
    /\ script = << >>

\* huffman_tree_load: one iteration of the loop that reads the entries
LoadEntry ==
    /\ pc = "header"
    /\ LET l == load_iteration(reader, got, loaded)
       IN  /\ reader' = l.r
           /\ got' = l.tempFreq
           /\ loaded' = l.frequencies
           /\ pc' = IF l.stop THEN "table" ELSE "header"
    /\ UNCHANGED << input, writer, frequencies, tree, hdr, pad, compressed, origTree,
                    nbits, status, sent, last, queue, script >>

\* huffman_tree_load after its loop: the tree is created and returned;
\* huffman_decompress skips the padding line
LoadTree ==
    /\ pc = "table"
    /\ tree' = huffman_tree_create(loaded)
    /\ reader' = skip_bytes(reader, PADDING_LINE_BYTES)
    /\ nbits' = 0
    /\ pc' = "decode"
    /\ UNCHANGED << input, writer, frequencies, loaded, hdr, pad, compressed, origTree,
                    status, sent, got, last, queue, script >>

NextLoad ==
    \/ LoadEntry
    \/ LoadTree
    \/ DecompressBit
    \/ DecompressFinish

SpecLoad == InitLoad /\ [][NextLoad]_vars

-----------------------------------------------------------------------------
(* huffman_tree_create with the allocator in view.  m is the memory of the *)
(* call: nodes the arena, pq the queue, live the blocks allocated and not  *)
(* freed, made the number of allocation calls so far, fail the number of   *)
(* the call that returns NULL (0: none does).  The bytes of the codes,     *)
(* whose allocation failure generate_codes_rec passes over, are not        *)
(* counted.                                                                *)

\* a block of memory: its kind and, for a node, its index in the arena
NodeBlock(n) == <<"node", n>>
QueueBlocks == {<<"pq", 0>>, <<"heap", 0>>}
TreeBlock == <<"tree", 0>>
CodeBlocks == {<<"codes", 0>>, <<"code_lengths", 0>>}

\* the blocks of the nodes below and including n: what huffman_node_free frees
NodeBlocks(nodes, n) == {NodeBlock(k) : k \in TreeNodes(nodes, n)}

\* the next allocation call succeeds
alloc_ok(m) == m.made + 1 # m.fail

\* an allocation call was made
count_alloc(m) == [m EXCEPT !.made = m.made + 1]

\* ptr_pq_free(pq): the heap array and the queue, not what the heap points to
ptr_pq_free(m) == [m EXCEPT !.live = m.live \ QueueBlocks]

\* huffman_tree_create returns NULL
create_null(m) == [ret |-> NULL, tree |-> NoTree, live |-> m.live, made |-> m.made]

\* ptr_pq_insert(pq, data) with resize_if_needed's realloc in view; the
\* caller does not look at the result
ptr_pq_insert_alloc(m, data) ==
    IF ptr_pq_size(m.pq) >= m.pq.capacity
    THEN IF alloc_ok(m)
         THEN [count_alloc(m) EXCEPT !.pq = ptr_pq_insert(m.nodes, m.pq, data)]
         ELSE count_alloc(m)
    ELSE [m EXCEPT !.pq = ptr_pq_insert(m.nodes, m.pq, data)]

\* a node was allocated: it is in the arena and live
with_node(m, node) ==
    [count_alloc(m) EXCEPT !.nodes = Append(m.nodes, node),
                           !.live = m.live \cup {NodeBlock(Len(m.nodes) + 1)}]

\* huffman_tree_create from the allocation of the code arrays on
create_codes(m, root) ==
    IF alloc_ok(m) /\ alloc_ok(count_alloc(m))
    THEN [ret   |-> 1,
          tree  |-> with_codes([nodes |-> m.nodes, root |-> root,
                                codes |-> [i \in Bytes |-> << >>],
                                code_lengths |-> ZeroTable, current |-> NULL]),
          live  |-> (m.live \cup CodeBlocks) \ QueueBlocks,
          made  |-> m.made + 2]
    ELSE \* huffman_tree_destroy(tree); ptr_pq_free(pq)
         create_null([m EXCEPT !.made = m.made + 2,
                               !.live = (m.live \ ({TreeBlock} \cup NodeBlocks(m.nodes, root)))
                                            \ QueueBlocks])

\* huffman_tree_create from the allocation of the tree structure on
create_shell(m) ==
    IF ~alloc_ok(m) THEN create_null(ptr_pq_free(count_alloc(m)))
    ELSE create_codes([count_alloc(m) EXCEPT
                          !.live = m.live \cup {TreeBlock},
                          !.pq = IF ptr_pq_size(m.pq) > 0
                                 THEN ptr_pq_extract_min(m.nodes, m.pq).pq ELSE m.pq],
                      IF ptr_pq_size(m.pq) > 0
                      THEN ptr_pq_extract_min(m.nodes, m.pq).min ELSE NULL)

RECURSIVE create_merges(_)
RECURSIVE create_merge(_, _, _, _)

\* the loop that builds the tree
create_merges(m) ==
    IF ptr_pq_size(m.pq) > 1
    THEN create_merge(m, ptr_pq_extract_min(m.nodes, m.pq).min,
                      ptr_pq_extract_min(m.nodes, ptr_pq_extract_min(m.nodes, m.pq).pq).min,
                      ptr_pq_extract_min(m.nodes, ptr_pq_extract_min(m.nodes, m.pq).pq).pq)
    ELSE create_shell(m)

\* an iteration after left and right were extracted and left the queue q
create_merge(m, left, right, q) ==
    IF ~alloc_ok(m)
    THEN \* huffman_node_free(left); huffman_node_free(right); ptr_pq_free(pq)
         create_null(ptr_pq_free(
            [count_alloc(m) EXCEPT
                !.live = m.live \ (NodeBlocks(m.nodes, left) \cup NodeBlocks(m.nodes, right))]))
    ELSE create_merges(ptr_pq_insert_alloc(
            [with_node(m, parent_node(m.nodes, left, right)) EXCEPT !.pq = q],
            Len(m.nodes) + 1))

RECURSIVE create_leaves(_, _, _)
\* the loop that adds a leaf per byte of non-zero frequency (todo as in
\* add_leaves) and what follows it
create_leaves(freqs, todo, m) ==
    IF todo = {} THEN create_merges(m)
    ELSE IF ~alloc_ok(m) THEN create_null(ptr_pq_free(count_alloc(m)))
    ELSE create_leaves(freqs, todo \ {FirstOf(todo)},
            ptr_pq_insert_alloc(
                with_node(m, huffman_node_create(FirstOf(todo), freqs[FirstOf(todo)])),
                Len(m.nodes) + 1))

\* huffman_tree_create(freqs) when allocation call number fail returns NULL:
\* the value returned (NULL or 1 for a tree), the tree, the blocks left
\* allocated and the number of allocation calls made
huffman_tree_create_alloc(freqs, fail) ==
    IF fail = 1 \/ fail = 2
    THEN \* ptr_pq_create returns NULL, having freed what it allocated
         [ret |-> NULL, tree |-> NoTree, live |-> {}, made |-> fail]
    ELSE create_leaves(freqs, NonZero(freqs),
                       [nodes |-> << >>, pq |-> ptr_pq_create, live |-> QueueBlocks,
                        made |-> 2, fail |-> fail])

\* huffman_tree_destroy(tree): the blocks left of live
huffman_tree_destroy(t, live) ==
    live \ ({TreeBlock} \cup CodeBlocks \cup NodeBlocks(t.nodes, t.root))

\* byte values of the tables and a table of 17 bytes, one more than the
\* queue holds before it grows
AllocBytes == {65, 66, 67}
AllocTables ==
    {[i \in Bytes |-> IF i \in AllocBytes THEN f[i] ELSE 0] :
        f \in [AllocBytes -> 0 .. MaxFreq]}
    \cup {[i \in Bytes |-> IF i \in 1 .. INITIAL_CAPACITY + 1 THEN 1 ELSE 0]}

InitAlloc ==
    /\ pc = "allocating"
    /\ frequencies \in AllocTables
    /\ input = << >>
    /\ reader = bsr_create(<< >>, MAIN_BUFFER_SIZE)
    /\ writer = bsw_create(MAIN_BUFFER_SIZE)
    /\ loaded = ZeroTable
    /\ tree = NoTree
    /\ hdr = << >>
    /\ pad = << >>
    /\ compressed = << >>
    /\ origTree = NoTree
    /\ nbits = 0
    /\ status = EXIT_SUCCESS
    /\ LibIdle

\* what the calls with the allocator in view leave alone
AllocFrame ==
    UNCHANGED << input, reader, writer, frequencies, loaded, hdr, pad, compressed,
                 origTree, nbits, status, sent, got, queue, script >>

\* tree = huffman_tree_create(frequencies), one allocation call at most failing
AllocCreate ==
    /\ pc = "allocating"
    /\ \E fail \in 0 .. huffman_tree_create_alloc(frequencies, 0).made :
          /\ tree' = huffman_tree_create_alloc(frequencies, fail).tree
          /\ last' = [op |-> "huffman_tree_create", arg |-> fail,
                      ret |-> huffman_tree_create_alloc(frequencies, fail).ret,
                      data |-> huffman_tree_create_alloc(frequencies, fail).live,
                      n |-> huffman_tree_create_alloc(frequencies, fail).made]
    /\ pc' = "allocated"
    /\ AllocFrame

\* huffman_tree_destroy(tree) on the tree returned
AllocDestroy ==
    /\ pc = "allocated"
    /\ last.ret # NULL
    /\ last' = [last EXCEPT !.op = "huffman_tree_destroy",
                            !.data = huffman_tree_destroy(tree, last.data)]
    /\ tree' = NoTree
    /\ pc' = "released"
    /\ AllocFrame

NextAlloc ==
    \/ AllocCreate
    \/ AllocDestroy

SpecAlloc == InitAlloc /\ [][NextAlloc]_vars

-----------------------------------------------------------------------------
(* Properties                                                              *)

\* the bits of code b of tree t, first bit first
CodeBits(t, b) ==
    [i \in 1 .. t.code_lengths[b] |-> BitAt(t.codes[b][((i - 1) \div 8) + 1], (i - 1) % 8)]

IsPrefix(s, u) == Len(s) <= Len(u) /\ SubSeq(u, 1, Len(s)) = s

SingleSymbol(s) == Len(s) >= 1 /\ \A i \in 1 .. Len(s) : s[i] = s[1]

RECURSIVE SumOver(_, _)
SumOver(freqs, todo) ==
    IF todo = {} THEN 0
    ELSE freqs[FirstOf(todo)] + SumOver(freqs, todo \ {FirstOf(todo)})

\* the sum of all entries of a frequency table
TotalOf(freqs) == SumOver(freqs, NonZero(freqs))

\* every entry of the table fits the 24-bit frequency field of the header
FitsHeader(freqs) == \A b \in NonZero(freqs) : freqs[b] < 2 ^ 24

\* the bytes a writer has taken so far, flushed or not
StreamBytes(w) == w.sink \o w.buffer

\* the number of bits a writer holds in the stream
StreamLength(w) == 8 * Len(StreamBytes(w)) + w.bit_pos

\* bit k (from 1) of the stream a writer has produced
StreamBit(w, k) ==
    IF (k - 1) \div 8 < Len(StreamBytes(w))
    THEN BitAt(StreamBytes(w)[((k - 1) \div 8) + 1], (k - 1) % 8)
    ELSE BitAt(w.current_byte, (k - 1) % 8)

\* the bits a writer has produced after the first skip bytes
StreamBitsAfter(w, skip) ==
    [k \in 1 .. (StreamLength(w) - 8 * skip) |-> StreamBit(w, 8 * skip + k)]

RECURSIVE EncodedBits(_, _, _)
\* the codes of s[1 .. n] under tree t, concatenated
EncodedBits(t, s, n) ==
    IF n = 0 THEN << >> ELSE EncodedBits(t, s, n - 1) \o CodeBits(t, s[n])

Leaves(t) == {n \in TreeNodes(t.nodes, t.root) : IsLeaf(t.nodes, n)}
Internals(t) == TreeNodes(t.nodes, t.root) \ Leaves(t)

\* entry k (from 1) of a header
EntryAt(h, k) == SubSeq(h, 4 * k - 3, 4 * k)

\* the frequency field of a header entry read as 24 bits big-endian
FieldOf(e) == e[2] * 65536 + e[3] * 256 + e[4]

\* the table and tree in force in the current state
BuiltFrom == IF pc \in {"loaded", "decode"} THEN loaded ELSE frequencies
TreeBuilt == pc \in {"created", "saved", "loaded", "pad", "body", "decode"}

\* C1: decompressing the compressed form of any input yields exactly that input
C1_RoundTrip ==
    pc = "done" => status = EXIT_SUCCESS /\ writer.sink = input

\* C2: the decoder emits no more bytes than the total frequency of the rebuilt
\* tree, and its finished output holds exactly that many bytes
C2_StopsAtTotalFrequency ==
    /\ pc = "decode" => Len(StreamBytes(writer)) <= huffman_tree_total_frequencies(tree)
    /\ pc = "done" /\ status = EXIT_SUCCESS => Len(writer.sink) = TotalOf(loaded)

\* C3: an input made of N >= 1 copies of one byte b decompresses to N copies of b
C3_SingleSymbolDecode ==
    pc = "done" /\ SingleSymbol(input) => writer.sink = input

\* C4: for an input of N >= 1 copies of one byte b the tree is a single leaf,
\* b's code has length 0, the header is the entry (b, N) followed by the
\* sentinel, and the encoding loop writes no bits
C4_SingleSymbolCompress ==
    SingleSymbol(input) =>
        /\ pc \in {"pad", "body"} =>
              /\ tree.root # NULL
              /\ IsLeaf(tree.nodes, tree.root)
              /\ huffman_tree_get_code_length(tree, input[1]) = 0
        /\ pc \in {"pad", "body", "compressed"} =>
              /\ Len(hdr) = 8
              /\ EntryAt(hdr, 1)[1] = input[1]
              /\ FieldOf(EntryAt(hdr, 1)) = Len(input)
              /\ FieldOf(EntryAt(hdr, 2)) = 0
        /\ pc = "body" => StreamLength(writer) = 8 * Len(pad)
        /\ pc = "compressed" => compressed = pad

C4_Witness ==
    /\ pc = "compressed"
    /\ SingleSymbol(input)
    /\ Len(input) >= 2
    /\ compressed = pad

\* C5: in a tree built from any frequency table, no code of a byte with
\* non-zero frequency is a prefix of the code of another such byte
C5_PrefixFree ==
    TreeBuilt =>
        \A a \in NonZero(BuiltFrom) :
            /\ huffman_tree_get_code(tree, a) # << >>
            /\ \A b \in NonZero(BuiltFrom) \ {a} :
                  ~IsPrefix(CodeBits(tree, a), CodeBits(tree, b))

C5_Witness ==
    /\ pc = "created"
    /\ Cardinality(NonZero(frequencies)) = 4
    /\ \E a, b \in NonZero(frequencies) :
          huffman_tree_get_code_length(tree, a) < huffman_tree_get_code_length(tree, b)

\* C6: a tree built from a table with K >= 2 non-zero entries has K leaves,
\* one per such byte, and K-1 internal nodes with two children each, and
\* every code has length at least 1
C6_TreeShape ==
    TreeBuilt /\ Cardinality(NonZero(BuiltFrom)) >= 2 =>
        /\ Cardinality(Leaves(tree)) = Cardinality(NonZero(BuiltFrom))
        /\ {tree.nodes[n].byte : n \in Leaves(tree)} = NonZero(BuiltFrom)
        /\ Cardinality(Internals(tree)) = Cardinality(NonZero(BuiltFrom)) - 1
        /\ \A n \in Internals(tree) :
              tree.nodes[n].left # NULL /\ tree.nodes[n].right # NULL
        /\ \A b \in NonZero(BuiltFrom) : huffman_tree_get_code_length(tree, b) >= 1

C6_Witness ==
    /\ pc = "created"
    /\ Cardinality(NonZero(frequencies)) = 3
    /\ Cardinality(Internals(tree)) = 2

\* C7: a table whose counts fit in 24 bits, given to the tree builder, saved
\* and loaded again, comes back as the same table
C7_HeaderRoundTrip ==
    pc \in {"loaded", "decode"} /\ FitsHeader(frequencies) => loaded = frequencies

C7_Witness ==
    /\ pc = "loaded"
    /\ frequencies[65] = 2 ^ 24 - 1
    /\ frequencies[0] = 258
    /\ frequencies[255] = 1
    /\ loaded = frequencies

C9_EmptyInput ==
    pc = "compressed" /\ input = << >> =>
        Len(compressed) = 4 /\ FieldOf(EntryAt(compressed, 1)) = 0

\* C10: after the header the compressor has written, for the input bytes it
\* has encoded so far, the concatenation of their codes, first bit first
C10_BodyIsCodes ==
    pc = "body" =>
        StreamBitsAfter(writer, Len(pad))
            = EncodedBits(tree, input, reader.total_bits \div 8)

\* C11: bits written one at a time and flushed are read back one at a time
\* as the same sequence, followed only by zero bits up to the byte boundary
C11_BitRoundTrip ==
    /\ pc = "readback" => IsPrefix(got, ZeroPadded(sent))
    /\ pc = "bitsdone" => sent = input /\ got = ZeroPadded(input)

C11_Witness ==
    /\ pc = "bitsdone"
    /\ Len(input) = 17
    /\ writer.buffer_size = 1
    /\ Len(got) = 24

\* the calls of the writer interface that write
WriterCalls == {"write_bit", "write_bits", "write_byte", "write_bytes", "align", "flush", "free"}

\* the bits a writer holds in the stream, flushed or not
StreamBits(w) == StreamBitsAfter(w, 0)

\* C12: bsw_write_byte appends, at any bit cursor, the same 8 bits as eight
\* bsw_write_bit calls with the byte's bits, most significant first
C12_WriteByteAnyAlignment ==
    last.op = "write_byte" /\ last.ok /\ ~last.before.has_error =>
        /\ StreamBits(writer) = StreamBits(last.before) \o ByteBits(last.arg)
        /\ StreamBits(writer)
              = StreamBits(bsw_write_bits_from(last.before, <<last.arg>>, 8, 0).w)

\* C14: after any writes and a flush that succeed, explicit or at teardown,
\* the sink holds exactly the bits written so far, the last byte zero-padded,
\* and a further flush adds nothing
C14_FlushDeliversAll ==
    last.op \in {"flush", "free"} /\ last.ok =>
        /\ BitsOfBytes(writer.sink) = sent
        /\ writer.buffer = << >>
        /\ writer.bit_pos = 0

\* C16 (writer): a call made while the error flag is set returns failure and
\* leaves the sink as it was
C16_StickyError ==
    last.op \in WriterCalls /\ last.before.has_error =>
        ~last.ok /\ writer.sink = last.before.sink

\* the calls of the reader interface that read
ReadCalls == {"read_bit", "read_bits", "read_byte", "read_bytes"}

\* the number of bits of its file a reader has consumed
ReaderBitPos(r) == 8 * (r.file_pos - (Len(r.buffer) - r.buffer_pos)) - (8 - r.bit_pos)

\* the bits of the file from position p (from 0) on, at most n of them
FileBitsFrom(p, n) ==
    SubSeq(BitsOfBytes(input), p + 1, p + Min2(n, 8 * Len(input) - p))

\* a read call came back with less than it was asked for
RanShort == last.ret < last.arg

RECURSIVE ReadAllFrom(_, _)
\* the bytes that bsr_read_byte calls give until one returns false;
\* b is the result of the first call
ReadAllFrom(b, acc) ==
    IF ~b.ok THEN acc ELSE ReadAllFrom(bsr_read_byte(b.r, 0), Append(acc, b.val))

ReadAll(r) == ReadAllFrom(bsr_read_byte(r, 0), << >>)

C15_Rewind ==
    last.op = "rewind" /\ ~last.before.has_error =>
        /\ bsr_get_bits_read(reader) = 0
        /\ bsr_get_bytes_read(reader) = 0
        /\ ~bsr_is_eof(reader)
        /\ ReadAll(reader)
              = ReadAll([bsr_create(input, reader.buffer_size) EXCEPT !.io_ok = reader.io_ok])

C15_Witness ==
    /\ last.op = "rewind"
    /\ last.n = 3
    /\ last.before.is_eof
    /\ ~last.before.has_error
    /\ reader.io_ok
    /\ Len(input) >= 3
    /\ ReadAll(reader) = input

\* C17: a read that runs out of input returns false or a short count, sets
\* the end-of-input flag and leaves the error flag clear; the error flag is
\* set only when the underlying read fails
C17_EndOfInputNotError ==
    last.op \in ReadCalls /\ ~last.before.has_error =>
        /\ RanShort /\ last.before.io_ok => bsr_is_eof(reader) /\ ~bsr_has_error(reader)
        /\ bsr_has_error(reader) => ~last.before.io_ok

\* the elements a queue holds
Elements(q) == {q.heap[k] : k \in 1 .. Len(q.heap)}

\* C18: ptr_pq_extract_min on a non-empty queue removes exactly one element,
\* one that the comparator orders at or below every element held; inserts and
\* extracts lose no element and hold none twice, also past the capacity of 16
C18_ExtractMin ==
    /\ Cardinality(Elements(queue)) = ptr_pq_size(queue)
    /\ last.op = "insert" =>
          /\ Elements(queue) = Elements(last.before) \cup {last.arg}
          /\ ptr_pq_size(queue) = ptr_pq_size(last.before) + 1
    /\ last.op = "extract" /\ ptr_pq_size(last.before) > 0 =>
          /\ last.ret \in Elements(last.before)
          /\ \A e \in Elements(last.before) :
                huffman_node_compare(QueueNodes, last.ret, e) <= 0
          /\ Elements(queue) = Elements(last.before) \ {last.ret}
          /\ ptr_pq_size(queue) = ptr_pq_size(last.before) - 1

C18_Witness ==
    /\ last.op = "extract"
    /\ ptr_pq_size(last.before) = 18
    /\ last.before.capacity = 2 * INITIAL_CAPACITY
    /\ QueueNodes[last.ret].frequency = 1

\* C19: ptr_pq_peek returns the element the next ptr_pq_extract_min returns
\* and leaves the queue as it is; on an empty queue both return NULL and
\* leave the queue empty
C19_PeekAndEmpty ==
    /\ last.op = "peek" =>
          /\ queue = last.before
          /\ last.ret = ptr_pq_extract_min(QueueNodes, queue).min
          /\ ptr_pq_is_empty(queue) => last.ret = NULL
    /\ last.op = "extract" /\ ptr_pq_size(last.before) = 0 =>
          /\ last.ret = NULL
          /\ ptr_pq_is_empty(queue)
          /\ ptr_pq_size(queue) = 0

C19_Witness ==
    /\ last.op = "peek"
    /\ ptr_pq_size(queue) = 20 - 5
    /\ last.ret # NULL
    /\ last.ret # queue.heap[Len(queue.heap)]

\* the tree has a root and the root is a leaf
SingleLeaf(t) == t.root # NULL /\ IsLeaf(t.nodes, t.root)

\* C20: a bit that moves the decode automaton to a null destination, as any
\* bit fed to a single-leaf tree does, makes huffman_tree_decode_bit return
\* -1 and huffman_decompress end with failure
C20_NullTransition ==
    /\ pc = "decode" /\ SingleLeaf(tree) =>
          /\ nbits = 0
          /\ \A bit \in {0, 1} : huffman_tree_decode_bit(tree, bit, 0).ret = -1
    /\ pc = "done" /\ nbits > 0 /\ Cardinality(NonZero(loaded)) = 1 =>
          status = EXIT_FAILURE

\* the frequency field of the k-th 4-byte entry of file (k from 0)
FileEntryFrequency(file, k) == entry_frequency(SubSeq(file, 4 * k + 1, 4 * k + 4))

\* file holds a complete entry of frequency zero
HasSentinel(file) ==
    \E k \in 0 .. Len(file) \div SIZEOF_INT :
        4 * k + 4 <= Len(file) /\ FileEntryFrequency(file, k) = 0

\* C21: when the input ends before a complete zero-frequency entry has been
\* read, huffman_tree_load yields no tree (huffman_decompress never gets
\* past the load) and huffman_decompress returns failure
C21_TruncatedHeaderFails ==
    ~HasSentinel(compressed) =>
        /\ pc \notin {"table", "decode"}
        /\ pc = "done" => status = EXIT_FAILURE

\* the iteration of the loop that starts in this state exits the loop or
\* changes the reader, tempFreq or the table; the loop has no other state
\* and no other input, so an iteration that does neither repeats for ever
LoadAdvances ==
    LET l == load_iteration(reader, got, loaded)
    IN  l.stop \/ l.r # reader \/ l.tempFreq # got \/ l.frequencies # loaded

\* C26: on every finite input, complete or not, the loop of
\* huffman_tree_load that reads the header entries eventually exits: on its
\* way it never reaches a state that its next iteration leaves as it is
C26_LoadTerminates == pc = "header" => LoadAdvances

\* the number of bits the last call was asked to write
BitsOfCall ==
    IF last.op = "write_bit" THEN 1
    ELSE IF last.op = "write_bits" THEN CallBitCount
    ELSE IF last.op = "write_byte" THEN 8
    ELSE 8 * Len(last.arg)

\* C23: while every call has succeeded, bsw_get_bytes_written is the number
\* of complete bytes in the stream, a byte in the buffer and a byte in the
\* sink counting once each, and every write call adds the number of bits it
\* wrote to bsw_get_bits_written
C23_WriterCounters ==
    writer.io_ok /\ ~writer.has_error /\ last.op \in WriterCalls =>
        /\ bsw_get_bytes_written(writer) = Len(writer.sink) + Len(writer.buffer)
        /\ last.op \in {"write_bit", "write_bits", "write_byte", "write_bytes"} =>
              bsw_get_bits_written(writer)
                  = bsw_get_bits_written(last.before) + BitsOfCall

\* C24: every read call, at any alignment, adds to bsr_get_bits_read the
\* number of bits it consumed from the stream (1 per bit, 8 per byte), and
\* bsr_get_bytes_read is that counter divided by 8, rounded down
C24_ReaderCounters ==
    last.op \in ReadCalls /\ ~last.before.has_error /\ last.before.io_ok =>
        /\ bsr_get_bits_read(reader) - bsr_get_bits_read(last.before)
              = ReaderBitPos(reader) - ReaderBitPos(last.before)
        /\ bsr_get_bytes_read(reader) = bsr_get_bits_read(reader) \div 8

\* what Len(data) successive bsw_write_byte calls leave of writer w
ByteByByte(w, data) == bsw_write_bytes_from(w, data, Len(data), 0)

\* C29: on a writer without error whose sink takes writes, for every size,
\* alignment and buffer content, bsw_write_bytes leaves in sink plus buffer
\* the bytes, and in the counter the bits, that one bsw_write_byte call per
\* byte leaves; from a byte boundary these are the earlier bytes followed by
\* the data, so buffered bytes precede the ones written directly
C29_WriteBytesAsByteByByte ==
    last.op = "write_bytes" /\ last.before.io_ok /\ ~last.before.has_error =>
        /\ last.ok = ByteByByte(last.before, last.arg).ok
        /\ StreamBytes(writer) = StreamBytes(ByteByByte(last.before, last.arg).w)
        /\ writer.bit_pos = ByteByByte(last.before, last.arg).w.bit_pos
        /\ writer.current_byte = ByteByByte(last.before, last.arg).w.current_byte
        /\ bsw_get_bits_written(writer)
              = bsw_get_bits_written(ByteByByte(last.before, last.arg).w)
        /\ last.before.bit_pos = 0 =>
              StreamBytes(writer) = StreamBytes(last.before) \o last.arg

\* a block large enough for the optimized path was written directly to the
\* sink while an earlier byte was waiting in the buffer
C29_Witness ==
    /\ last.op = "write_bytes" /\ last.ok
    /\ Len(last.arg) > 8
    /\ Len(last.arg) >= last.before.buffer_size
    /\ last.before.bit_pos = 0
    /\ last.before.buffer # << >>
    /\ writer.buffer = << >>
    /\ writer.sink = last.before.sink \o last.before.buffer \o last.arg

\* what size successive bsr_read_byte calls, stopped by the first that
\* returns false, leave of reader r and destination data
ReadByteByByte(r, data, size) == bsr_read_bytes_loop(r, data, size, 0)

\* C30: bsr_read_bytes asked for n >= 0 bytes, at any alignment and buffer
\* fill, returns a count k <= n, has written to none but the first n
\* positions of the destination, and count, bytes stored and stream
\* position are those of successive bsr_read_byte calls
C30_ReadBytesAsByteByByte ==
    last.op = "read_bytes" /\ ~last.before.has_error /\ last.before.io_ok =>
        /\ last.ret <= last.arg
        /\ Len(last.data) <= last.arg
        /\ last.ret = ReadByteByByte(last.before, Zeroes(last.arg), last.arg).n
        /\ last.data = ReadByteByByte(last.before, Zeroes(last.arg), last.arg).data
        /\ ReaderBitPos(reader)
              = ReaderBitPos(ReadByteByByte(last.before, Zeroes(last.arg), last.arg).r)

InQueueBefore(t, p) ==
    {c \in 1 .. (p - 1) :
        \A q \in 1 .. (p - 1) : t.nodes[q].left # c /\ t.nodes[q].right # c}

\* C27: every internal node was made of the two elements of minimum
\* frequency in the queue, left the first extracted and right the second
\* (left.frequency <= right.frequency), carries the sum of their
\* frequencies and went back in the queue; the loop ends with one element,
\* the root, whose frequency is the sum of the table
C27_MergeStep ==
    TreeBuilt /\ NonZero(BuiltFrom) # {} =>
        /\ \A p \in 1 .. Len(tree.nodes) :
              ~IsLeaf(tree.nodes, p) =>
                  /\ tree.nodes[p].left \in InQueueBefore(tree, p)
                  /\ tree.nodes[p].right \in InQueueBefore(tree, p)
                  /\ tree.nodes[p].left # tree.nodes[p].right
                  /\ \A c \in InQueueBefore(tree, p) :
                        tree.nodes[tree.nodes[p].left].frequency <= tree.nodes[c].frequency
                  /\ \A c \in InQueueBefore(tree, p) \ {tree.nodes[p].left} :
                        tree.nodes[tree.nodes[p].right].frequency <= tree.nodes[c].frequency
                  /\ tree.nodes[p].frequency
                        = tree.nodes[tree.nodes[p].left].frequency
                          + tree.nodes[tree.nodes[p].right].frequency
        /\ InQueueBefore(tree, Len(tree.nodes) + 1) = {tree.root}
        /\ tree.nodes[tree.root].frequency = TotalOf(BuiltFrom)

\* four bytes of frequencies that differ at a merge: three internal nodes
C27_Witness ==
    /\ pc = "created"
    /\ Cardinality(NonZero(frequencies)) = 4
    /\ Len(tree.nodes) = 7
    /\ \E p \in 5 .. 7 :
          tree.nodes[tree.nodes[p].left].frequency < tree.nodes[tree.nodes[p].right].frequency
    /\ tree.nodes[tree.root].frequency = TotalOf(frequencies)

RECURSIVE LeafDepth(_, _, _)
\* the depth below node n of the leaf of byte b, -1 when there is none
LeafDepth(nodes, n, b) ==
    IF n = NULL THEN -1
    ELSE IF IsLeaf(nodes, n) THEN (IF nodes[n].byte = b THEN 0 ELSE -1)
    ELSE IF LeafDepth(nodes, nodes[n].left, b) >= 0
    THEN LeafDepth(nodes, nodes[n].left, b) + 1
    ELSE IF LeafDepth(nodes, nodes[n].right, b) >= 0
    THEN LeafDepth(nodes, nodes[n].right, b) + 1
    ELSE -1

RECURSIVE FeedBits(_, _, _)
\* huffman_tree_decode_bit called for each bit of bits in order, starting
\* from result d: the tree, the return values so far and *decoded_byte
FeedBits(d, bits, k) ==
    IF k > Len(bits) THEN d
    ELSE FeedBits([t    |-> huffman_tree_decode_bit(d.t, bits[k], d.byte).t,
                   rets |-> Append(d.rets, huffman_tree_decode_bit(d.t, bits[k], d.byte).ret),
                   byte |-> huffman_tree_decode_bit(d.t, bits[k], d.byte).byte],
                  bits, k + 1)

\* the code of byte b fed to the automaton of t with the cursor at the root
FedCode(t, b) ==
    FeedBits([t |-> [t EXCEPT !.current = NULL], rets |-> << >>, byte |-> (b + 1) % 256],
             CodeBits(t, b), 1)

\* C28: in a tree with at least two leaves, for every byte b with a code,
\* the code length is the depth of b's leaf, and the bits of the code fed in
\* order to huffman_tree_decode_bit from the root give 0 for every bit but
\* the last and 1 with decoded byte b for the last, the cursor back at the
\* start
C28_EncoderDecoderAgree ==
    TreeBuilt /\ Cardinality(NonZero(BuiltFrom)) >= 2 =>
        \A b \in NonZero(BuiltFrom) :
            /\ huffman_tree_get_code_length(tree, b) = LeafDepth(tree.nodes, tree.root, b)
            /\ Len(CodeBits(tree, b)) = huffman_tree_get_code_length(tree, b)
            /\ FedCode(tree, b).rets
                  = [k \in 1 .. Len(CodeBits(tree, b)) |->
                        IF k = Len(CodeBits(tree, b)) THEN 1 ELSE 0]
            /\ FedCode(tree, b).byte = b
            /\ FedCode(tree, b).t.current = NULL

\* a tree of four leaves in which one code has 3 bits and one has 1
C28_Witness ==
    /\ pc = "created"
    /\ Cardinality(NonZero(frequencies)) = 4
    /\ \E a, b \in NonZero(frequencies) :
          /\ huffman_tree_get_code_length(tree, a) = 3
          /\ huffman_tree_get_code_length(tree, b) = 1
          /\ FedCode(tree, a).rets = <<0, 0, 1>>
          /\ FedCode(tree, a).byte = a

\* an allocation call of the last huffman_tree_create returned NULL
AllocationFailed == last.arg \in 1 .. last.n

\* C22: when an allocation fails during huffman_tree_create (a leaf, an
\* internal node, the tree structure, a code array, the growth of the
\* queue), the function returns NULL and no block it allocated is left
\* allocated
C22_NoLeakOnAllocationFailure ==
    last.op = "huffman_tree_create" /\ AllocationFailed =>
        /\ last.ret = NULL
        /\ last.data = {}

\* the bits of the pending byte from the cursor on are zero
PendingBeyondCursorClear(w) == w.current_byte % Pow2(8 - w.bit_pos) = 0

\* C31: after every writer call, one that failed included, the bit cursor is
\* in 0 .. 7 and the pending byte holds the bits written since the last byte
\* boundary and nothing after them
C31_BitCursor ==
    last.op # "none" =>
        /\ writer.bit_pos \in 0 .. 7
        /\ PendingBeyondCursorClear(writer)

\* the comparator orders heap[(i - 1) / 2] at or below heap[i] for 0 < i < size
HeapOrdered(nodes, heap) ==
    \A i \in 1 .. Len(heap) - 1 :
        huffman_node_compare(nodes, heap[(i - 1) \div 2 + 1], heap[i + 1]) <= 0

\* the heap array holds its elements in ascending order of the comparator
HeapSorted(nodes, heap) ==
    \A i \in 1 .. Len(heap) - 1 :
        huffman_node_compare(nodes, heap[i], heap[i + 1]) <= 0

\* C32: after every ptr_pq_insert and every ptr_pq_extract_min the comparator
\* orders each parent heap[(i - 1) / 2] at or below its child heap[i], and the
\* size is at most the capacity
C32_HeapInvariant ==
    last.op \in {"insert", "extract"} =>
        /\ HeapOrdered(QueueNodes, queue.heap)
        /\ ptr_pq_size(queue) <= queue.capacity

C32_Witness ==
    /\ last.op = "extract"
    /\ queue.capacity = 2 * INITIAL_CAPACITY
    /\ ptr_pq_size(queue) = INITIAL_CAPACITY
    /\ ~HeapSorted(QueueNodes, queue.heap)

\* the number of 4-byte entries of a header
EntryCount(h) == Len(h) \div SIZEOF_INT

\* C33: for every byte counted at least once the saved header holds an entry
\* whose frequency field is not zero and equals the count, and the only
\* entry with a zero frequency field is the last one, the sentinel
C33_SentinelUnambiguous ==
    pc \in {"saved", "loaded"} =>
        /\ \A b \in NonZero(frequencies) :
              \E k \in 1 .. EntryCount(hdr) - 1 :
                  /\ EntryAt(hdr, k)[1] = b
                  /\ FieldOf(EntryAt(hdr, k)) # 0
                  /\ FieldOf(EntryAt(hdr, k)) = frequencies[b]
        /\ \A k \in 1 .. EntryCount(hdr) :
              FieldOf(EntryAt(hdr, k)) = 0 => k = EntryCount(hdr)

========================================================================
